---- MODULE Spec2Model ----
(***************************************************************************)
(* Model of the daily_question backend: the analytics functions of         *)
(* backend/app/services/analytics_service.py and the response submission   *)
(* path of backend/app/api/responses.py and backend/app/crud/response.py.  *)
(* The cache service of backend/app/cache.py, the account lockout of       *)
(* backend/app/api/auth.py and the reminders of                            *)
(* backend/app/services/reminder_service.py follow them.                   *)
(*                                                                         *)
(* A date string "YYYY-MM-DD" is modelled by the tuple <<y, m, d>> of its  *)
(* three zero-padded fields: the lexicographic order of the fixed-width    *)
(* strings is the lexicographic order of the tuples.  A datetime.date      *)
(* object is modelled by its proleptic Gregorian ordinal (date.toordinal). *)
(***************************************************************************)
EXTENDS Integers, Sequences, FiniteSets, TLC

VARIABLES today, responses, options_map, result,
          tbl_responses, tbl_answers, req,
          cache, clock, failed_login_attempts, sched

\* the inputs and the output of the analytics functions
scoreVars == <<today, responses, options_map, result>>

\* the tables of the store and the submissions being handled
storeVars == <<tbl_responses, tbl_answers, req>>

\* the cache service, the time in seconds, the lockout table of the login
\* and the reminder scheduler
serviceVars == <<cache, clock, failed_login_attempts, sched>>

vars == <<today, responses, options_map, result,
          tbl_responses, tbl_answers, req,
          cache, clock, failed_login_attempts, sched>>

(***************************************************************************)
(* Bounds of the model.                                                    *)
(***************************************************************************)
\* number of responses in the collection handed to a scorer
MaxResponses == 4
\* number of calendar days responses may be dated on
WindowDays == 7

(***************************************************************************)
(* Calendar: datetime.strptime(d, "%Y-%m-%d").date() and strftime.         *)
(***************************************************************************)
None == "None"

Years == {2023, 2024}

IsLeap(y) == (y % 4 = 0) /\ ((y % 100 # 0) \/ (y % 400 = 0))

DaysInMonth(y, m) ==
  IF m = 2 THEN (IF IsLeap(y) THEN 29 ELSE 28)
  ELSE IF m \in {4, 6, 9, 11} THEN 30 ELSE 31

DaysBeforeYear(y) ==
  (y - 1) * 365 + ((y - 1) \div 4) - ((y - 1) \div 100) + ((y - 1) \div 400)

RECURSIVE DaysBeforeMonth(_, _)
DaysBeforeMonth(y, m) ==
  IF m = 1 THEN 0 ELSE DaysBeforeMonth(y, m - 1) + DaysInMonth(y, m - 1)

\* strptime(s, "%Y-%m-%d").date(), as the ordinal of the date
strptime(s) == DaysBeforeYear(s[1]) + DaysBeforeMonth(s[1], s[2]) + s[3]

ValidDateStrings ==
  { s \in Years \X (1..12) \X (1..31) : s[3] <= DaysInMonth(s[1], s[2]) }

\* date.strftime("%Y-%m-%d"): the year, then the month, then the day
strftime(ord) ==
  LET y == CHOOSE yy \in Years :
             DaysBeforeYear(yy) < ord /\ ord <= DaysBeforeYear(yy + 1)
      n == ord - DaysBeforeYear(y)
      m == CHOOSE mm \in 1..12 :
             DaysBeforeMonth(y, mm) < n
             /\ n <= DaysBeforeMonth(y, mm) + DaysInMonth(y, mm)
  IN <<y, m, n - DaysBeforeMonth(y, m)>>

\* first day of the window: 2023-12-29, so that the window crosses a year
FirstDay == strptime(<<2023, 12, 29>>)

DateStrings ==
  { s \in ValidDateStrings :
      strptime(s) >= FirstDay /\ strptime(s) < FirstDay + WindowDays }

\* the values datetime.now().date() takes in the model
Todays == { FirstDay + 4, FirstDay + 5, FirstDay + 6 }

\* the value of datetime.now().date() in the scoring specification
ScoreToday == FirstDay + 3

\* no scorer has been called on the current collection
NoResult == [fn |-> "none"]

\* Python's order on the strings "YYYY-MM-DD"
StrLess(a, b) ==
  \/ a[1] < b[1]
  \/ a[1] = b[1] /\ a[2] < b[2]
  \/ a[1] = b[1] /\ a[2] = b[2] /\ a[3] < b[3]

Range(s) == { s[i] : i \in 1..Len(s) }

Max(S) == CHOOSE x \in S : \A y \in S : y <= x

\* [r["date"] for r in responses]
date_list(rs) == [ i \in 1..Len(rs) |-> rs[i].date ]

\* a list without set(): every element kept
RECURSIVE set_keeps_duplicates(_)
set_keeps_duplicates(l) ==
  IF l = <<>> THEN <<>>
  ELSE <<Head(l)>> \o set_keeps_duplicates(Tail(l))

\* set(l): the distinct elements of l (listed in order of first occurrence;
\* the only use sorts them)
RECURSIVE set(_)
set(l) ==
  IF l = <<>> THEN <<>>
  ELSE LET init == set(SubSeq(l, 1, Len(l) - 1))
           x == l[Len(l)]
       IN IF x \in Range(init) THEN init ELSE Append(init, x)

\* insertion of x into the sorted list l, after the elements not above it
RECURSIVE insert_str(_, _)
insert_str(l, x) ==
  IF l = <<>> THEN <<x>>
  ELSE IF StrLess(x, Head(l)) THEN <<x>> \o l
       ELSE <<Head(l)>> \o insert_str(Tail(l), x)

\* sorted(...) of a list of date strings
RECURSIVE sorted(_)
sorted(l) ==
  IF l = <<>> THEN <<>>
  ELSE insert_str(sorted(SubSeq(l, 1, Len(l) - 1)), l[Len(l)])

RECURSIVE insert_date(_, _)
insert_date(l, x) ==
  IF l = <<>> THEN <<x>>
  ELSE IF x < Head(l) THEN <<x>> \o l
       ELSE <<Head(l)>> \o insert_date(Tail(l), x)

\* sorted(...) of a list of date objects
RECURSIVE sorted_dates(_)
sorted_dates(l) ==
  IF l = <<>> THEN <<>>
  ELSE insert_date(sorted_dates(SubSeq(l, 1, Len(l) - 1)), l[Len(l)])

(***************************************************************************)
(* calculate_daily_progress                                                *)
(***************************************************************************)
\* the scan with the maximum recorded only when a run is broken
RECURSIVE longest_scan_on_reset(_, _, _, _)
longest_scan_on_reset(ds, i, streak_count, longest) ==
  IF i > Len(ds) THEN longest
  ELSE IF ds[i] - ds[i - 1] = 1
       THEN longest_scan_on_reset(ds, i + 1, streak_count + 1, longest)
       ELSE longest_scan_on_reset(ds, i + 1, 1,
              IF streak_count > longest THEN streak_count ELSE longest)

\* the scan with every later date extending the run
RECURSIVE longest_scan_any_gap(_, _, _, _)
longest_scan_any_gap(ds, i, streak_count, longest) ==
  IF i > Len(ds) THEN longest
  ELSE IF ds[i] - ds[i - 1] >= 1
       THEN LET sc == streak_count + 1
            IN longest_scan_any_gap(ds, i + 1, sc,
                 IF sc > longest THEN sc ELSE longest)
       ELSE longest_scan_any_gap(ds, i + 1, 1, longest)

\* for i in range(1, len(sorted_date_objects)): the scan of adjacent pairs,
\* i the (1-based) position of date2
RECURSIVE longest_scan(_, _, _, _)
longest_scan(ds, i, streak_count, longest) ==
  IF i > Len(ds) THEN longest
  ELSE IF ds[i] - ds[i - 1] = 1
       THEN LET sc == streak_count + 1
            IN longest_scan(ds, i + 1, sc, IF sc > longest THEN sc ELSE longest)
       ELSE longest_scan(ds, i + 1, 1, longest)

\* the walk that does not stop at a gap
walk_back_over_gaps(date_objects, check_date) ==
  Cardinality({ d \in Range(date_objects) : d <= check_date })

\* while check_date in date_objects: temp_streak += 1; check_date -= 1 day
RECURSIVE walk_back(_, _)
walk_back(date_objects, check_date) ==
  IF check_date \in Range(date_objects)
  THEN 1 + walk_back(date_objects, check_date - 1)
  ELSE 0

\* the staleness test off by one day
streak_active_two_days(days_since_last_submission) ==
  days_since_last_submission <= 2

\* if days_since_last_submission <= 1
streak_active(days_since_last_submission) == days_since_last_submission <= 1

calculate_daily_progress(rs, now) ==
  IF rs = <<>>
  THEN [days_this_month |-> 0, current_streak |-> 0,
        longest_streak |-> 0, total_days |-> 0]
  ELSE
    LET dates == sorted(set(date_list(rs)))
        current_month == strftime(now)
        days_this_month ==
          Cardinality({ i \in 1..Len(dates) :
                          dates[i][1] = current_month[1]
                          /\ dates[i][2] = current_month[2] })
        date_objects == [ i \in 1..Len(dates) |-> strptime(dates[i]) ]
        sorted_date_objects == sorted_dates(date_objects)
        longest_streak ==
          IF Len(sorted_date_objects) > 0
          THEN longest_scan(sorted_date_objects, 2, 1, 1)
          ELSE 0
        most_recent_date == Max(Range(date_objects))
        days_since_last_submission == now - most_recent_date
        current_streak ==
          IF streak_active(days_since_last_submission)
          THEN walk_back(date_objects, most_recent_date)
          ELSE 0
    IN [days_this_month |-> days_this_month,
        current_streak |-> current_streak,
        longest_streak |-> longest_streak,
        total_days |-> Len(dates)]

(***************************************************************************)
(* Python values.  An id is a string and str() of a string is the string   *)
(* itself; None is the reserved value None, which is no id, so comparing   *)
(* two values compares their str().  A dict (and a Counter) is the list of *)
(* its <<key, value>> items in insertion order.  A float is the exact      *)
(* rational [num, den] it approximates.                                    *)
(***************************************************************************)
Truthy(x) == x # None /\ x # ""

Rat(n, d) == [num |-> n, den |-> d]

keys(d) == { d[i][1] : i \in 1..Len(d) }

dict_get(d, k, default) ==
  IF k \in keys(d)
  THEN d[CHOOSE i \in 1..Len(d) : d[i][1] = k][2]
  ELSE default

\* counter[k] += 1
counter_inc(d, k) ==
  IF k \in keys(d)
  THEN [ i \in 1..Len(d) |-> IF d[i][1] = k THEN <<k, d[i][2] + 1>> ELSE d[i] ]
  ELSE Append(d, <<k, 1>>)

\* Counter over the list l, keys in order of first occurrence
RECURSIVE count_all(_)
count_all(l) ==
  IF l = <<>> THEN <<>>
  ELSE counter_inc(count_all(SubSeq(l, 1, Len(l) - 1)), l[Len(l)])

\* for response in responses: for answer in response.get("answers", [])
RECURSIVE all_answers(_)
all_answers(rs) ==
  IF rs = <<>> THEN <<>> ELSE Head(rs).answers \o all_answers(Tail(rs))

RECURSIVE sum_seq(_)
sum_seq(l) == IF l = <<>> THEN 0 ELSE Head(l) + sum_seq(Tail(l))

(***************************************************************************)
(* get_option_text_from_id                                                 *)
(***************************************************************************)
Option(text, value) == [option_text |-> text, option_value |-> value]

\* the map build_options_map returns when the tables cannot be read
EmptyMap == [ o \in {} |-> Option("", "") ]

\* the resolver with a placeholder for an id that is not in the map
get_option_text_placeholder(option_id, om) ==
  IF option_id \in DOMAIN om THEN om[option_id].option_text ELSE "Unknown"

\* option = options_map.get(option_id); every entry built by
\* build_options_map is a non-empty dict with the key "option_text"
get_option_text_from_id(option_id, om) ==
  IF option_id \in DOMAIN om THEN om[option_id].option_text ELSE option_id

\* the option texts of the answers of l, in order
option_texts(l, om) ==
  [ i \in 1..Len(l) |-> get_option_text_from_id(l[i].selected_option_id, om) ]

(***************************************************************************)
(* calculate_option_frequency                                              *)
(***************************************************************************)
\* the four "continue" filters and the "if option_id"
frequency_counts(a, question_id, sub_question_id) ==
  /\ ~(Truthy(question_id) /\ a.question_id # question_id)
  /\ ~(Truthy(sub_question_id) /\ a.sub_question_id # sub_question_id)
  /\ ~(Truthy(sub_question_id) /\ ~Truthy(a.sub_question_id))
  /\ ~(Truthy(question_id) /\ ~Truthy(sub_question_id)
         /\ Truthy(a.sub_question_id))
  /\ Truthy(a.selected_option_id)

\* insertion of item x before the items whose count is not above x's
RECURSIVE insert_before_equal(_, _)
insert_before_equal(l, x) ==
  IF l = <<>> THEN <<x>>
  ELSE IF x[2] >= Head(l)[2] THEN <<x>> \o l
       ELSE <<Head(l)>> \o insert_before_equal(Tail(l), x)

\* insertion of item x after the items whose count is not below x's
RECURSIVE insert_by_count(_, _)
insert_by_count(l, x) ==
  IF l = <<>> THEN <<x>>
  ELSE IF x[2] > Head(l)[2] THEN <<x>> \o l
       ELSE <<Head(l)>> \o insert_by_count(Tail(l), x)

\* Counter.most_common(n): by count, largest first, equal counts in
\* insertion order
RECURSIVE sorted_by_count(_)
sorted_by_count(d) ==
  IF d = <<>> THEN <<>>
  ELSE insert_by_count(sorted_by_count(SubSeq(d, 1, Len(d) - 1)), d[Len(d)])

most_common(d, n) ==
  LET l == sorted_by_count(d)
  IN SubSeq(l, 1, IF Len(l) < n THEN Len(l) ELSE n)

option_frequency_of(rs, question_id, sub_question_id, om) ==
  LET Counts(a) == frequency_counts(a, question_id, sub_question_id)
      counted == SelectSeq(all_answers(rs), Counts)
      option_counter == count_all(option_texts(counted, om))
      total_selections == Len(counted)
      percentages ==
        [ i \in 1..Len(option_counter) |->
            <<option_counter[i][1],
              IF total_selections > 0
              THEN Rat(option_counter[i][2] * 100, total_selections)
              ELSE Rat(0, 1)>> ]
  IN [absolute_counts |-> option_counter,
      percentages |-> percentages,
      top_options |-> most_common(option_counter, 10),
      total_selections |-> total_selections]

calculate_option_frequency(rs, question_id, sub_question_id, om) ==
  IF rs = <<>>
  THEN [absolute_counts |-> <<>>, percentages |-> <<>>,
        top_options |-> <<>>, total_selections |-> 0]
  ELSE option_frequency_of(rs, question_id, sub_question_id, om)

(***************************************************************************)
(* calculate_mood_score                                                    *)
(***************************************************************************)
feeling_scores ==
  << <<"Excited", 100>>, <<"Happy", 90>>, <<"Contented", 75>>,
     <<"Normal", 50>>, <<"Low energy", 30>>, <<"Depressed", 10>>,
     <<"Agitated/Stressed", 20>> >>

positive_options == {"Excited", "Happy", "Contented"}

negative_options == {"Depressed", "Agitated/Stressed", "Low energy"}

\* the answers of the question that carry a selected option
mood_answers(rs, question_id) ==
  LET Counts(a) == a.question_id = question_id /\ Truthy(a.selected_option_id)
  IN SelectSeq(all_answers(rs), Counts)

\* the score rounded to the nearest integer instead of truncated
mood_overall_rounded(total_score, total_responses) ==
  IF total_responses = 0 THEN 50
  ELSE (2 * total_score + total_responses) \div (2 * total_responses)

\* overall_score = 50 if total_responses == 0
\*                 else int(total_score / total_responses)
mood_overall(total_score, total_responses) ==
  IF total_responses = 0 THEN 50 ELSE total_score \div total_responses

\* the labels with strict thresholds
mood_trend_strict(overall_score) ==
  IF overall_score > 70 THEN "very_positive"
  ELSE IF overall_score > 55 THEN "positive"
  ELSE IF overall_score > 45 THEN "neutral"
  ELSE "negative"

mood_trend(overall_score) ==
  IF overall_score >= 70 THEN "very_positive"
  ELSE IF overall_score >= 55 THEN "positive"
  ELSE IF overall_score >= 45 THEN "neutral"
  ELSE "negative"

mood_score_of(rs, question_id, om) ==
  LET texts == option_texts(mood_answers(rs, question_id), om)
      scores == [ i \in 1..Len(texts) |-> dict_get(feeling_scores, texts[i], 50) ]
      IsPositive(t) == t \in positive_options
      IsNegative(t) == t \notin positive_options /\ t \in negative_options
      overall_score == mood_overall(sum_seq(scores), Len(texts))
  IN [overall_score |-> overall_score,
      trend |-> mood_trend(overall_score),
      positive_count |-> Len(SelectSeq(texts, IsPositive)),
      negative_count |-> Len(SelectSeq(texts, IsNegative)),
      distribution |-> count_all(texts)]

calculate_mood_score(rs, question_id, om) ==
  IF rs = <<>>
  THEN [overall_score |-> 50, trend |-> "neutral", positive_count |-> 0,
        negative_count |-> 0, distribution |-> <<>>]
  ELSE mood_score_of(rs, question_id, om)

(***************************************************************************)
(* round(x, n) and the daily charts.  A rounded float is modelled by the   *)
(* integer number of its last decimal unit: round(x, 1) by tenths,         *)
(* round(x, 2) by hundredths.                                              *)
(***************************************************************************)
\* the integer nearest to num / den, a tie going to the even neighbour
round_half_even(num, den) ==
  LET q == num \div den
      r == num % den
  IN IF 2 * r < den THEN q
     ELSE IF 2 * r > den THEN q + 1
     ELSE IF q % 2 = 0 THEN q ELSE q + 1

\* every response taken as a response of the day
day_responses_all(rs, date_str) == rs

\* responses_by_date.get(date_str, [])
day_responses(rs, date_str) ==
  LET OnDay(r) == Truthy(r.date) /\ r.date = date_str
  IN SelectSeq(rs, OnDay)

\* for i in range(days), from day i on: the items of daily_scores
RECURSIVE mood_chart_from(_, _, _, _, _, _)
mood_chart_from(rs, question_id, days, om, utcnow, i) ==
  IF i >= days THEN <<>>
  ELSE
    LET date_str == strftime(utcnow - i)
        texts == option_texts(
                   mood_answers(day_responses(rs, date_str), question_id), om)
        scores == [ k \in 1..Len(texts) |->
                      dict_get(feeling_scores, texts[k], 50) ]
        count == Len(texts)
        rest == mood_chart_from(rs, question_id, days, om, utcnow, i + 1)
    IN IF count > 0
       THEN << <<date_str, [score |-> sum_seq(scores) \div count,
                            count |-> count]>> >> \o rest
       ELSE rest

calculate_daily_mood_chart(rs, question_id, days, om, utcnow) ==
  IF rs = <<>> THEN <<>>
  ELSE mood_chart_from(rs, question_id, days, om, utcnow, 0)

sleep_scores ==
  << <<"Excellent", 5>>, <<"Good", 4>>, <<"Average", 3>>, <<"Poor", 2>>,
     <<"Very Poor", 1>> >>

\* the "score" of a day is round(total_score / count, 2), in hundredths
RECURSIVE sleep_trend_from(_, _, _, _, _, _)
sleep_trend_from(rs, question_id, days, om, utcnow, i) ==
  IF i >= days THEN <<>>
  ELSE
    LET date_str == strftime(utcnow - i)
        texts == option_texts(
                   mood_answers(day_responses(rs, date_str), question_id), om)
        scores == [ k \in 1..Len(texts) |->
                      dict_get(sleep_scores, texts[k], 3) ]
        count == Len(texts)
        rest == sleep_trend_from(rs, question_id, days, om, utcnow, i + 1)
    IN IF count > 0
       THEN << <<date_str,
                 [score |-> round_half_even(sum_seq(scores) * 100, count),
                  count |-> count]>> >> \o rest
       ELSE rest

calculate_sleep_quality_trend(rs, question_id, days, om, utcnow) ==
  IF rs = <<>> THEN <<>>
  ELSE sleep_trend_from(rs, question_id, days, om, utcnow, 0)

(***************************************************************************)
(* calculate_sleep_score.  The four returned scores are round(x, 1), in    *)
(* tenths.                                                                 *)
(***************************************************************************)
quality_scores ==
  << <<"Excellent", 100>>, <<"Good", 80>>, <<"Average", 60>>, <<"Poor", 40>>,
     <<"Very Poor", 20>> >>

duration_scores ==
  << <<"Less than 3 hours", 20>>, <<"3-4 hours", 40>>, <<"5-6 hours", 60>>,
     <<"7-8 hours", 90>>, <<"8+ hours", 100>> >>

bedtime_values ==
  << <<"9pm", 21>>, <<"10pm", 22>>, <<"11pm", 23>>, <<"Midnight", 24>>,
     <<"After Midnight", 25>> >>

\* the consistency taken as 50 whatever the bedtimes
sleep_consistency_fixed(bedtimes) == Rat(50, 1)

\* consistency_score as a rational: max(0, 100 - variance * 10), or 50
sleep_consistency(bedtimes) ==
  LET Known(bt) == bt \in keys(bedtime_values)
      kept == SelectSeq(bedtimes, Known)
      numeric_bedtimes ==
        [ i \in 1..Len(kept) |-> dict_get(bedtime_values, kept[i], 23) ]
      n == Len(numeric_bedtimes)
      total == sum_seq(numeric_bedtimes)
      squares == sum_seq([ i \in 1..n |->
                            numeric_bedtimes[i] * numeric_bedtimes[i] ])
      \* variance = sum((bt - avg) ** 2) / n = (n * squares - total^2) / n^2
      variance_num == n * squares - total * total
      score_num == 100 * n * n - 10 * variance_num
  IN IF n > 0
     THEN Rat(IF score_num > 0 THEN score_num ELSE 0, n * n)
     ELSE Rat(50, 1)

sleep_score_of(rs, quality_id, duration_id, bedtime_id, om) ==
  LET Selected(a) == Truthy(a.selected_option_id)
      as == SelectSeq(all_answers(rs), Selected)
      IsQuality(a) == a.question_id = quality_id
      IsDuration(a) == ~IsQuality(a) /\ a.question_id = duration_id
      IsBedtime(a) == ~IsQuality(a) /\ a.question_id # duration_id
                        /\ a.question_id = bedtime_id
      qtexts == option_texts(SelectSeq(as, IsQuality), om)
      dtexts == option_texts(SelectSeq(as, IsDuration), om)
      bedtimes == option_texts(SelectSeq(as, IsBedtime), om)
      quality_total ==
        sum_seq([ i \in 1..Len(qtexts) |->
                    dict_get(quality_scores, qtexts[i], 60) ])
      duration_total ==
        sum_seq([ i \in 1..Len(dtexts) |->
                    dict_get(duration_scores, dtexts[i], 60) ])
      avg_quality == IF Len(qtexts) > 0 THEN Rat(quality_total, Len(qtexts))
                     ELSE Rat(60, 1)
      avg_duration == IF Len(dtexts) > 0 THEN Rat(duration_total, Len(dtexts))
                      ELSE Rat(60, 1)
      consistency_score == sleep_consistency(bedtimes)
      \* avg_quality * 0.5 + avg_duration * 0.3 + consistency_score * 0.2
      composite_score ==
        Rat(5 * avg_quality.num * avg_duration.den * consistency_score.den
            + 3 * avg_duration.num * avg_quality.den * consistency_score.den
            + 2 * consistency_score.num * avg_quality.den * avg_duration.den,
            10 * avg_quality.den * avg_duration.den * consistency_score.den)
      round1(x) == round_half_even(x.num * 10, x.den)
  IN [score |-> round1(composite_score),
      quality_score |-> round1(avg_quality),
      duration_score |-> round1(avg_duration),
      consistency_score |-> round1(consistency_score)]

\* the scorer without its "if not responses" guard
calculate_sleep_score_unguarded(rs, quality_id, duration_id, bedtime_id, om) ==
  sleep_score_of(rs, quality_id, duration_id, bedtime_id, om)

calculate_sleep_score(rs, quality_id, duration_id, bedtime_id, om) ==
  IF rs = <<>>
  THEN [score |-> 0, quality_score |-> 0, duration_score |-> 0,
        consistency_score |-> 0]
  ELSE sleep_score_of(rs, quality_id, duration_id, bedtime_id, om)

(***************************************************************************)
(* calculate_weekly_summary.  datetime.now() is the record of the date     *)
(* (its ordinal) and the time of day (in seconds); a date string parsed by *)
(* strptime is a datetime at 00:00:00 of its day.                          *)
(***************************************************************************)
Now(date, time) == [date |-> date, time |-> time]

\* now - timedelta(days=n)
minus_days(now, n) == Now(now.date - n, now.time)

\* datetime.strptime(d, "%Y-%m-%d") >= dt
parsed_not_before(d, dt) ==
  \/ strptime(d) > dt.date
  \/ strptime(d) = dt.date /\ 0 >= dt.time

\* [r for r in responses if strptime(r["date"]) >= week_ago]
weekly_responses(rs, now) ==
  LET week_ago == minus_days(now, 7)
      InWeek(r) == parsed_not_before(r.date, week_ago)
  IN SelectSeq(rs, InWeek)

calculate_weekly_summary(rs, question_id, om, now) ==
  LET weekly == weekly_responses(rs, now)
      Selected(a) == Truthy(a.selected_option_id)
      all_selections == option_texts(SelectSeq(all_answers(weekly), Selected), om)
      selection_counts == count_all(all_selections)
      top == most_common(selection_counts, 5)
      mood == calculate_mood_score(weekly, question_id, om)
  IN IF weekly = <<>>
     THEN [days_completed |-> 0, top_selections |-> <<>>,
           weekly_trend |-> "neutral", mood_score |-> 50]
     ELSE [days_completed |-> Len(weekly),
           top_selections |-> [ i \in 1..Len(top) |-> top[i][1] ],
           weekly_trend |-> mood.trend,
           mood_score |-> mood.overall_score]

(***************************************************************************)
(* calculate_option_trends                                                 *)
(***************************************************************************)
\* date.weekday(): Monday is 0
weekday(ord) == (ord + 6) % 7

\* the weekly series reporting the week of the date itself
week_key_same_day(date) == date

\* (date_obj - timedelta(days=date_obj.weekday())).strftime("%Y-%m-%d")
week_key(date) == strftime(strptime(date) - weekday(strptime(date)))

\* the date of every selection that adds one to daily_data, in the order of
\* the two loops
RECURSIVE trend_dates(_, _, _, _)
trend_dates(rs, option_text, question_id, om) ==
  IF rs = <<>> THEN <<>>
  ELSE
    LET r == Head(rs)
        Counts(a) ==
          /\ ~(Truthy(question_id) /\ a.question_id # question_id)
          /\ Truthy(a.selected_option_id)
          /\ get_option_text_from_id(a.selected_option_id, om) = option_text
        hits == IF Truthy(r.date) THEN SelectSeq(r.answers, Counts) ELSE <<>>
    IN [ i \in 1..Len(hits) |-> r.date ]
         \o trend_dates(Tail(rs), option_text, question_id, om)

\* sorted(daily_data.items()) as the list of {"date", "count"}
daily_trend_of(daily_data) ==
  LET ds == sorted(set([ i \in 1..Len(daily_data) |-> daily_data[i][1] ]))
  IN [ i \in 1..Len(ds) |->
         [date |-> ds[i], count |-> dict_get(daily_data, ds[i], 0)] ]

\* sorted(weekly_data.items()) as the list of {"date", "count",
\* "avg_per_day"}
weekly_trend_of(daily_trend) ==
  LET ws == sorted(set([ i \in 1..Len(daily_trend) |->
                           week_key(daily_trend[i].date) ]))
      InWeek(w) == { i \in 1..Len(daily_trend) :
                       week_key(daily_trend[i].date) = w }
      RECURSIVE Total(_)
      Total(I) == IF I = {} THEN 0
                  ELSE LET i == CHOOSE j \in I : TRUE
                       IN daily_trend[i].count + Total(I \ {i})
  IN [ k \in 1..Len(ws) |->
         [date |-> ws[k],
          count |-> Total(InWeek(ws[k])),
          avg_per_day |-> Rat(Total(InWeek(ws[k])),
                              Cardinality(InWeek(ws[k])))] ]

calculate_option_trends(rs, option_text, question_id, om) ==
  IF rs = <<>> THEN [daily |-> <<>>, weekly |-> <<>>]
  ELSE
    LET daily_data == count_all(trend_dates(rs, option_text, question_id, om))
        daily_trend == daily_trend_of(daily_data)
    IN [daily |-> daily_trend, weekly |-> weekly_trend_of(daily_trend)]

(***************************************************************************)
(* calculate_nutrition_ratio, calculate_nutrition_score and                *)
(* calculate_hydration_consistency.  The percentages are round(x, 1), in   *)
(* tenths.                                                                 *)
(***************************************************************************)
\* the substrings the scorers look for that an option text of the catalog
\* contains; an id without a text contains none of them
substrings(text) ==
  CASE text = "Healthy (Fruit & Veg)" -> {"Healthy", "Fruit & Veg"}
    [] text = "Easy food/Snacks" -> {"Easy", "Snacks"}
    [] text = "Adequate (>1 litre)" -> {"Adequate", ">"}
    [] text = "Low (<1 litre)" -> {"Low", "<"}
    [] text = "Low energy" -> {"Low"}
    [] text = "Less < 1/2 hr" -> {"<"}
    [] text = "More > 1/2 hr" -> {">"}
    [] OTHER -> {}

\* sub in text
contains(text, sub) == sub \in substrings(text)

\* round(count / total * 100, 1) if total > 0 else 0
percentage(count, total) ==
  IF total > 0 THEN round_half_even(count * 1000, total) ELSE 0

\* the nutrition answers counted whether or not they answer a sub-question
nutrition_answers_any(rs, question_id) ==
  LET Counts(a) == /\ a.question_id = question_id
                   /\ Truthy(a.selected_option_id)
  IN SelectSeq(all_answers(rs), Counts)

\* the answers to the sub-questions of the question that carry an option
nutrition_answers(rs, question_id) ==
  LET Counts(a) == /\ a.question_id = question_id
                   /\ Truthy(a.sub_question_id)
                   /\ Truthy(a.selected_option_id)
  IN SelectSeq(all_answers(rs), Counts)

nutrition_ratio_of(rs, question_id, om) ==
  LET texts == option_texts(nutrition_answers(rs, question_id), om)
      IsHealthy(t) == contains(t, "Healthy") \/ contains(t, "Fruit & Veg")
      IsEasy(t) == ~IsHealthy(t) /\ (contains(t, "Easy") \/ contains(t, "Snacks"))
      healthy_count == Len(SelectSeq(texts, IsHealthy))
      easy_count == Len(SelectSeq(texts, IsEasy))
      total_meals == healthy_count + easy_count
  IN [healthy_count |-> healthy_count,
      easy_count |-> easy_count,
      total_meals |-> total_meals,
      healthy_percentage |-> percentage(healthy_count, total_meals),
      easy_percentage |-> percentage(easy_count, total_meals)]

calculate_nutrition_ratio(rs, question_id, om) ==
  IF rs = <<>>
  THEN [healthy_count |-> 0, easy_count |-> 0, total_meals |-> 0,
        healthy_percentage |-> 0, easy_percentage |-> 0]
  ELSE nutrition_ratio_of(rs, question_id, om)

\* round(score, 1) of a value that is a number of tenths already
calculate_nutrition_score(rs, question_id, om) ==
  LET nutrition_ratio == calculate_nutrition_ratio(rs, question_id, om)
      score == nutrition_ratio.healthy_percentage
  IN [score |-> round_half_even(score, 1),
      healthy_percentage |-> nutrition_ratio.healthy_percentage,
      total_meals |-> nutrition_ratio.total_meals]

\* the option text the inner loop over the answers of one response stops
\* at: the first answer to the question that carries an option; None when
\* there is none
first_hydration_text(answers, question_id, om) ==
  LET Counts(a) == /\ a.question_id = question_id
                   /\ Truthy(a.selected_option_id)
      hits == SelectSeq(answers, Counts)
  IN IF hits = <<>> THEN None
     ELSE get_option_text_from_id(hits[1].selected_option_id, om)

\* for i in range(days), from day i on: the texts classified, one per
\* response of each day
RECURSIVE hydration_texts_from(_, _, _, _, _, _)
hydration_texts_from(rs, question_id, days, om, utcnow, i) ==
  IF i >= days THEN <<>>
  ELSE
    LET drs == day_responses(rs, strftime(utcnow - i))
    IN [ k \in 1..Len(drs) |->
           first_hydration_text(drs[k].answers, question_id, om) ]
         \o hydration_texts_from(rs, question_id, days, om, utcnow, i + 1)

hydration_consistency_of(rs, question_id, days, om, utcnow) ==
  LET texts == hydration_texts_from(rs, question_id, days, om, utcnow, 0)
      IsAdequate(t) == t # None /\ (contains(t, "Adequate") \/ contains(t, ">"))
      IsLow(t) == /\ t # None
                  /\ ~IsAdequate(t)
                  /\ (contains(t, "Low") \/ contains(t, "<"))
      adequate_count == Len(SelectSeq(texts, IsAdequate))
      low_count == Len(SelectSeq(texts, IsLow))
      total_days == adequate_count + low_count
  IN [adequate_days |-> adequate_count,
      low_days |-> low_count,
      total_days |-> total_days,
      adequate_percentage |-> percentage(adequate_count, total_days),
      consistency_score |-> percentage(adequate_count, total_days)]

calculate_hydration_consistency(rs, question_id, days, om, utcnow) ==
  IF rs = <<>>
  THEN [adequate_days |-> 0, low_days |-> 0, total_days |-> 0,
        adequate_percentage |-> 0, consistency_score |-> 0]
  ELSE hydration_consistency_of(rs, question_id, days, om, utcnow)

(***************************************************************************)
(* The endpoints of the dashboard that look the question ids up in the     *)
(* catalog of questions by order.  The catalog is the function from the    *)
(* orders it holds to the question ids.                                    *)
(***************************************************************************)
\* question_ids.get(order)
get_question_id_by_order(question_ids, order) ==
  IF order \in DOMAIN question_ids THEN question_ids[order] ELSE None

ZeroSleepScore ==
  [score |-> 0, quality_score |-> 0, duration_score |-> 0,
   consistency_score |-> 0]

\* the endpoint answering with zeros only when no question is in the catalog
get_sleep_score_any(rs, question_ids, om) ==
  LET q6_id == get_question_id_by_order(question_ids, 6)
      q7_id == get_question_id_by_order(question_ids, 7)
      q8_id == get_question_id_by_order(question_ids, 8)
  IN IF ~(Truthy(q6_id) \/ Truthy(q7_id) \/ Truthy(q8_id))
     THEN ZeroSleepScore
     ELSE calculate_sleep_score(rs, q6_id, q8_id, q7_id, om)

get_sleep_score(rs, question_ids, om) ==
  LET q6_id == get_question_id_by_order(question_ids, 6)
      q7_id == get_question_id_by_order(question_ids, 7)
      q8_id == get_question_id_by_order(question_ids, 8)
  IN IF ~(Truthy(q6_id) /\ Truthy(q7_id) /\ Truthy(q8_id))
     THEN ZeroSleepScore
     ELSE calculate_sleep_score(rs, q6_id, q8_id, q7_id, om)

\* the metrics of get_health_wellness_all whose scorers are modelled, as
\* they are computed when the cache holds no result
get_health_wellness_all(rs, question_ids, days, om, utcnow) ==
  LET q2_id == get_question_id_by_order(question_ids, 2)
      q3_id == get_question_id_by_order(question_ids, 3)
      q6_id == get_question_id_by_order(question_ids, 6)
      q7_id == get_question_id_by_order(question_ids, 7)
      q8_id == get_question_id_by_order(question_ids, 8)
  IN [sleep_quality_trend |->
        IF Truthy(q6_id)
        THEN calculate_sleep_quality_trend(rs, q6_id, days, om, utcnow)
        ELSE <<>>,
      sleep_score |->
        IF Truthy(q6_id) /\ Truthy(q7_id) /\ Truthy(q8_id)
        THEN calculate_sleep_score(rs, q6_id, q8_id, q7_id, om)
        ELSE ZeroSleepScore,
      nutrition_ratio |->
        IF Truthy(q2_id) THEN calculate_nutrition_ratio(rs, q2_id, om)
        ELSE [healthy_count |-> 0, easy_count |-> 0, total_meals |-> 0,
              healthy_percentage |-> 0, easy_percentage |-> 0],
      nutrition_score |->
        IF Truthy(q2_id) THEN calculate_nutrition_score(rs, q2_id, om)
        ELSE [score |-> 0, healthy_percentage |-> 0, total_meals |-> 0],
      hydration_consistency |->
        IF Truthy(q3_id)
        THEN calculate_hydration_consistency(rs, q3_id, days, om, utcnow)
        ELSE [adequate_days |-> 0, low_days |-> 0, total_days |-> 0,
              adequate_percentage |-> 0, consistency_score |-> 0]]

(***************************************************************************)
(* The cache service of backend/app/cache.py without Redis: the module     *)
(* dictionaries _memory_cache and _cache_timestamps and the tracking       *)
(* dictionaries _user_keys and _key_to_user of the CacheService.  A Python *)
(* dict is a function on its keys; the time of the event loop is a whole   *)
(* number of seconds.                                                      *)
(***************************************************************************)
\* dict.pop(k, None) and del dict[k]
dict_pop(d, k) == [ x \in DOMAIN d \ {k} |-> d[x] ]

\* dict[k] = v
dict_put(d, k, v) ==
  [ x \in DOMAIN d \cup {k} |-> IF x = k THEN v ELSE d[x] ]

\* the cache service with nothing stored and nothing tracked
EmptyCache ==
  [memory_cache |-> <<>>, cache_timestamps |-> <<>>,
   user_keys |-> <<>>, key_to_user |-> <<>>]

\* hashlib.md5(f"{prefix}:{user_id}:").hexdigest(): the digest stands for the
\* pair it was computed from
key_hash(prefix, user_id) == <<prefix, user_id>>

\* the state of the cache service after _make_key(prefix, user_id)
make_key(c, prefix, user_id) ==
  LET had == IF user_id \in DOMAIN c.user_keys
             THEN c.user_keys[user_id] ELSE {}
  IN [c EXCEPT
        !.user_keys = dict_put(@, user_id, had \cup {key_hash(prefix, user_id)}),
        !.key_to_user = dict_put(@, key_hash(prefix, user_id), user_id)]

\* the clean-up of the tracking of one key, in get and in delete
untrack(c, key) ==
  IF key \notin DOMAIN c.key_to_user THEN c
  ELSE LET user_id == c.key_to_user[key]
           popped == [c EXCEPT !.key_to_user = dict_pop(@, key)]
       IN IF user_id \notin DOMAIN c.user_keys THEN popped
          ELSE IF c.user_keys[user_id] \ {key} = {}
               THEN [popped EXCEPT !.user_keys = dict_pop(@, user_id)]
               ELSE [popped EXCEPT !.user_keys[user_id] = @ \ {key}]

\* get that never removes an entry
CacheService_get_keeping(c, key, current_time) ==
  IF key \in DOMAIN c.memory_cache
     /\ c.cache_timestamps[key] > current_time
  THEN [cache |-> c, hit |-> TRUE, out |-> c.memory_cache[key]]
  ELSE [cache |-> c, hit |-> FALSE, out |-> None]

\* CacheService.get: the value returned (hit: it is not None) and the cache
\* service afterwards
CacheService_get(c, key, current_time) ==
  IF key \in DOMAIN c.memory_cache
  THEN IF c.cache_timestamps[key] > current_time
       THEN [cache |-> c, hit |-> TRUE, out |-> c.memory_cache[key]]
       ELSE [cache |->
               untrack([c EXCEPT !.memory_cache = dict_pop(@, key),
                                 !.cache_timestamps = dict_pop(@, key)], key),
             hit |-> FALSE, out |-> None]
  ELSE [cache |-> c, hit |-> FALSE, out |-> None]

\* CacheService.set
CacheService_set(c, key, value, ttl_seconds, current_time) ==
  [c EXCEPT !.memory_cache = dict_put(@, key, value),
            !.cache_timestamps = dict_put(@, key, current_time + ttl_seconds)]

\* CacheService.invalidate_user_cache
invalidate_user_cache(c, user_id) ==
  LET keys_to_delete == IF user_id \in DOMAIN c.user_keys
                        THEN c.user_keys[user_id] ELSE {}
  IN IF keys_to_delete = {} THEN c
     ELSE [memory_cache |->
             [ k \in DOMAIN c.memory_cache \ keys_to_delete |->
                 c.memory_cache[k] ],
           cache_timestamps |->
             [ k \in DOMAIN c.cache_timestamps \ keys_to_delete |->
                 c.cache_timestamps[k] ],
           key_to_user |->
             [ k \in DOMAIN c.key_to_user \ keys_to_delete |->
                 c.key_to_user[k] ],
           user_keys |-> dict_pop(c.user_keys, user_id)]

\* the reminder scheduler before start_reminder_scheduler
SchedulerIdle == [pc |-> "idle", target_time |-> 0]

\* nothing cached, no failed login, the scheduler not started
ServicesIdle ==
  /\ cache = EmptyCache
  /\ clock = 0
  /\ failed_login_attempts = <<>>
  /\ sched = SchedulerIdle

(***************************************************************************)
(* The account lockout of login in backend/app/api/auth.py: the dictionary *)
(* _failed_login_attempts maps a lower-cased email to its count and its    *)
(* locked_until; datetime.utcnow() is the time in seconds.                 *)
(***************************************************************************)
MAX_LOGIN_ATTEMPTS == 5

LOCKOUT_DURATION_MINUTES == 15

\* the value None of locked_until
NotLocked == -1

\* {'count': 0, 'locked_until': None}
NoAttempts == [count |-> 0, locked_until |-> NotLocked]

\* the addresses of the modelled logins
Emails == {"a@x.org", "A@x.org", "b@x.org"}

\* user_data.email.lower()
lower(email) == IF email = "A@x.org" THEN "a@x.org" ELSE email

\* what supabase.auth.sign_in_with_password does: it returns a user and a
\* session, returns without them, raises an error about invalid
\* credentials, or raises another error
Outcomes == {"session", "no_session", "invalid", "error"}

\* the lockout check that lets every attempt through
locked_out_never(attempts, email_lower, utcnow) == FALSE

\* login rejects the attempt before the call of the identity provider
locked_out(attempts, email_lower, utcnow) ==
  /\ email_lower \in DOMAIN attempts
  /\ attempts[email_lower].locked_until # NotLocked
  /\ utcnow < attempts[email_lower].locked_until

\* the dictionary after the lockout check of an attempt that is let through:
\* an expired lockout is reset
after_lockout_check(attempts, email_lower) ==
  IF email_lower \in DOMAIN attempts
     /\ attempts[email_lower].locked_until # NotLocked
  THEN dict_put(attempts, email_lower, NoAttempts)
  ELSE attempts

\* a failed attempt that counts but never locks
record_failure_unlocked(attempts, email_lower, utcnow) ==
  LET count == IF email_lower \in DOMAIN attempts
               THEN attempts[email_lower].count + 1 ELSE 1
  IN dict_put(attempts, email_lower,
              [count |-> count, locked_until |-> NotLocked])

\* the dictionary after a failed attempt: the count is incremented and the
\* account is locked when it reaches MAX_LOGIN_ATTEMPTS
record_failure(attempts, email_lower, utcnow) ==
  LET count == IF email_lower \in DOMAIN attempts
               THEN attempts[email_lower].count + 1 ELSE 1
  IN dict_put(attempts, email_lower,
              [count |-> count,
               locked_until |->
                 IF count >= MAX_LOGIN_ATTEMPTS
                 THEN utcnow + LOCKOUT_DURATION_MINUTES * 60
                 ELSE IF email_lower \in DOMAIN attempts
                      THEN attempts[email_lower].locked_until
                      ELSE NotLocked])

\* the dictionary after a successful login
record_success(attempts, email_lower) ==
  IF email_lower \in DOMAIN attempts
  THEN dict_put(attempts, email_lower, NoAttempts)
  ELSE attempts

\* the status code of an attempt that reached the identity provider
login_status(attempts_after, email_lower, outcome) ==
  IF outcome = "session" THEN 200
  ELSE IF attempts_after[email_lower].count >= MAX_LOGIN_ATTEMPTS THEN 429
  ELSE IF outcome = "error" THEN 500
  ELSE 401

(***************************************************************************)
(* The reminders of backend/app/services/reminder_service.py.  The time is *)
(* a number of seconds since midnight of the date of the variable today,   *)
(* and a datetime is a date ordinal with the seconds since its midnight.   *)
(***************************************************************************)
SecondsPerDay == 86400

\* REMINDER_TIME = "20:00": reminder_hour and reminder_minute
reminder_hour == 20

reminder_minute == 0

\* datetime.now() when the time is t seconds after midnight of the date d0
datetime_now(d0, t) ==
  [date |-> d0 + (t \div SecondsPerDay), seconds |-> t % SecondsPerDay]

\* dt1 >= dt2
datetime_ge(dt1, dt2) ==
  \/ dt1.date > dt2.date
  \/ dt1.date = dt2.date /\ dt1.seconds >= dt2.seconds

\* (dt1 - dt2).total_seconds()
total_seconds(dt1, dt2) ==
  (dt1.date - dt2.date) * SecondsPerDay + dt1.seconds - dt2.seconds

\* dt.replace(day=day): ValueError when the month has no such day
replace_day(dt, day) ==
  LET ymd == strftime(dt.date)
  IN IF day \in 1..DaysInMonth(ymd[1], ymd[2])
     THEN [ok |-> TRUE,
           value |-> [dt EXCEPT !.date = strptime(<<ymd[1], ymd[2], day>>)]]
     ELSE [ok |-> FALSE, value |-> dt]

\* one iteration of schedule_daily_reminders up to the sleep: the target
\* time, or the ValueError of replace
next_target_time(now) ==
  LET target_time ==
        [now EXCEPT !.seconds = reminder_hour * 3600 + reminder_minute * 60]
  IN IF datetime_ge(now, target_time)
     THEN replace_day(target_time, strftime(target_time.date)[3] + 1)
     ELSE [ok |-> TRUE, value |-> target_time]

\* table user_profiles: rows user_id, email, display_name, pref_reminder
user_profiles ==
  << [user_id |-> "u1", email |-> "u1@x.org", display_name |-> "One",
      pref_reminder |-> TRUE],
     [user_id |-> "u2", email |-> "u2@x.org", display_name |-> None,
      pref_reminder |-> TRUE],
     [user_id |-> "u3", email |-> None, display_name |-> "Three",
      pref_reminder |-> TRUE],
     [user_id |-> "u4", email |-> "u4@x.org", display_name |-> "Four",
      pref_reminder |-> FALSE] >>

\* get_users_for_reminder: the rows with pref_reminder
get_users_for_reminder(profiles) ==
  SelectSeq(profiles, LAMBDA user : user.pref_reminder)

\* check_user_has_submitted_today: False when the request to the store
\* raises
check_user_has_submitted_today(tbl, user_id, today_str, fails) ==
  IF fails THEN FALSE
  ELSE \E i \in 1..Len(tbl) :
         tbl[i].user_id = user_id /\ tbl[i].date = today_str

\* the results of send_daily_reminders: one entry for every email sent
RECURSIVE reminder_results(_, _, _, _)
reminder_results(users, tbl, today_str, failing) ==
  IF users = <<>> THEN <<>>
  ELSE LET user == Head(users)
           rest == reminder_results(Tail(users), tbl, today_str, failing)
           has_submitted ==
             check_user_has_submitted_today(tbl, user.user_id, today_str,
                                            user.user_id \in failing)
       IN IF ~Truthy(user.user_id) THEN rest
          ELSE IF ~has_submitted /\ Truthy(user.email)
               THEN << [user_id |-> user.user_id, email |-> user.email] >>
                    \o rest
               ELSE rest

\* send_daily_reminders
send_daily_reminders(profiles, tbl, today_str, failing) ==
  LET users == get_users_for_reminder(profiles)
  IN [success |-> TRUE, total_users |-> Len(users),
      results |-> reminder_results(users, tbl, today_str, failing)]

(***************************************************************************)
(* The store and the submission path: submit_response,                     *)
(* validate_answer_selection and create_response.  The store is a remote   *)
(* service and every supabase ... .execute() is one request to it; the     *)
(* submissions in progress are served independently of each other, so the  *)
(* store requests of two submissions interleave.                           *)
(***************************************************************************)
\* number of submissions handled
MaxRequests == 2

Reqs == 1..MaxRequests

Users == {"u1", "u2"}

\* the dates the modelled submissions are for
SubmitDates == {<<2024, 1, 1>>, <<2024, 1, 2>>}

\* table questions: id -> type
questions == [ q \in {"q1", "q2", "q3"} |->
                 CASE q = "q1" -> "single_select"
                   [] q = "q2" -> "with_sub_questions"
                   [] q = "q3" -> "multi_select" ]

\* table sub_questions: rows id, parent_question_id, type,
\* triggering_option_value
sub_questions ==
  { [id |-> "s_breakfast", parent_question_id |-> "q2",
     type |-> "multi_select", triggering_option_value |-> "breakfast"],
    [id |-> "s_notes", parent_question_id |-> "q2",
     type |-> "multi_select", triggering_option_value |-> None] }

\* table question_options: rows id, question_id, option_value
question_options ==
  { [id |-> "o_contented", question_id |-> "q1", option_value |-> "contented"],
    [id |-> "o_low", question_id |-> "q1", option_value |-> "low_energy"],
    [id |-> "o_breakfast", question_id |-> "q2", option_value |-> "breakfast"],
    [id |-> "o_lunch", question_id |-> "q2", option_value |-> "lunch"],
    [id |-> "o_walk", question_id |-> "q3", option_value |-> "walk"] }

\* models.AnswerSelection; sub_question_answers is None or a dict
AnswerSelection(q, selected, subs) ==
  [question_id |-> q, selected_option_ids |-> selected,
   sub_question_answers |-> subs]

\* the bodies of the submissions the model draws from
Payloads ==
  { << AnswerSelection("q1", <<"o_low">>, None) >>,
    << AnswerSelection("q1", <<>>, None) >>,
    << AnswerSelection("q2", <<"o_breakfast">>,
                       << <<"s_breakfast", <<"o_healthy">> >> >>) >>,
    << AnswerSelection("q2", <<"o_lunch">>,
                       << <<"s_breakfast", <<"o_healthy">> >> >>) >>,
    << AnswerSelection("q3", <<>>, None) >>,
    << AnswerSelection("q3", <<"o_walk">>, None),
       AnswerSelection("q2", <<"o_lunch">>,
                       << <<"s_notes", <<"o_easy">> >> >>) >> }

\* the check of a sub-question answer without the look at the main options
sub_answer_valid_untriggered(answer, item) ==
  LET sub_q_id == item[1]
      option_ids == item[2]
      found == { sq \in sub_questions :
                   sq.parent_question_id = answer.question_id
                   /\ sq.id = sub_q_id }
      sub_q == CHOOSE sq \in found : TRUE
  IN \/ Len(option_ids) = 0
     \/ /\ found # {}
        /\ ~(sub_q.type = "single_select" /\ Len(option_ids) # 1)
        /\ ~(sub_q.type = "multi_select" /\ Len(option_ids) = 0)

\* one (sub_q_id, option_ids) item of sub_question_answers is acceptable
sub_answer_valid(answer, item) ==
  LET sub_q_id == item[1]
      option_ids == item[2]
      found == { sq \in sub_questions :
                   sq.parent_question_id = answer.question_id
                   /\ sq.id = sub_q_id }
      sub_q == CHOOSE sq \in found : TRUE
      main_option_selected ==
        \E i \in 1..Len(answer.selected_option_ids) :
          \E opt \in question_options :
            /\ opt.question_id = answer.question_id
            /\ opt.id = answer.selected_option_ids[i]
            /\ opt.option_value = sub_q.triggering_option_value
  IN \/ Len(option_ids) = 0
     \/ /\ found # {}
        /\ Truthy(sub_q.triggering_option_value) => main_option_selected
        /\ ~(sub_q.type = "single_select" /\ Len(option_ids) # 1)
        /\ ~(sub_q.type = "multi_select" /\ Len(option_ids) = 0)

\* validate_answer_selection returns without raising
validate_answer_selection(answer) ==
  /\ answer.question_id \in DOMAIN questions
  /\ questions[answer.question_id] = "single_select"
       => Len(answer.selected_option_ids) = 1
  /\ questions[answer.question_id] = "multi_select"
       => Len(answer.selected_option_ids) # 0
  /\ (answer.sub_question_answers # None
      /\ answer.sub_question_answers # <<>>)
       => \A k \in 1..Len(answer.sub_question_answers) :
            sub_answer_valid(answer, answer.sub_question_answers[k])

\* the select of the duplicate guard on the wrong column: no row matches
existing_response_none(tbl, user_id, date) == {}

\* supabase.table("responses").select("id").eq("user_id", user_id)
\*   .eq("date", date).execute().data, as the set of row ids
existing_response(tbl, user_id, date) ==
  { i \in 1..Len(tbl) : tbl[i].user_id = user_id /\ tbl[i].date = date }

\* the records of one answer: the main selections, then the sub-question ones
RECURSIVE sub_records(_, _, _)
sub_records(response_id, question_id, subs) ==
  IF subs = <<>> THEN <<>>
  ELSE [ i \in 1..Len(Head(subs)[2]) |->
           [response_id |-> response_id, question_id |-> question_id,
            sub_question_id |-> Head(subs)[1],
            selected_option_id |-> Head(subs)[2][i]] ]
       \o sub_records(response_id, question_id, Tail(subs))

RECURSIVE answer_records(_, _)
answer_records(response_id, answers) ==
  IF answers = <<>> THEN <<>>
  ELSE LET answer == Head(answers)
       IN [ i \in 1..Len(answer.selected_option_ids) |->
              [response_id |-> response_id,
               question_id |-> answer.question_id,
               sub_question_id |-> None,
               selected_option_id |-> answer.selected_option_ids[i]] ]
          \o (IF answer.sub_question_answers = None THEN <<>>
              ELSE sub_records(response_id, answer.question_id,
                               answer.sub_question_answers))
          \o answer_records(response_id, Tail(answers))

Idle == [pc |-> "idle", user_id |-> None, date |-> None, answers |-> <<>>,
         response_id |-> 0, status_code |-> 0, detail |-> ""]

StoreIdle ==
  /\ tbl_responses = <<>>
  /\ tbl_answers = <<>>
  /\ req = [ r \in Reqs |-> Idle ]

Raised(r, code, detail) ==
  [req EXCEPT ![r].pc = "raised", ![r].answers = <<>>,
              ![r].status_code = code, ![r].detail = detail]

\* POST /api/responses arrives with the body (date, answers) of a user
Submit(r, u, d, answers) ==
  /\ req[r].pc = "idle"
  /\ req' = [req EXCEPT ![r].pc = "validate", ![r].user_id = u,
                        ![r].date = d, ![r].answers = answers]
  /\ UNCHANGED <<tbl_responses, tbl_answers>>
  /\ UNCHANGED scoreVars
  /\ UNCHANGED serviceVars

\* submit_response up to the call of create_response
Validate(r) ==
  /\ req[r].pc = "validate"
  /\ IF req[r].answers = <<>>
     THEN req' = Raised(r, 400, "Must provide at least one answer")
     ELSE IF \A k \in 1..Len(req[r].answers) :
               validate_answer_selection(req[r].answers[k])
          THEN req' = [req EXCEPT ![r].pc = "check"]
          ELSE req' = Raised(r, 400, "validation")
  /\ UNCHANGED <<tbl_responses, tbl_answers>>
  /\ UNCHANGED scoreVars
  /\ UNCHANGED serviceVars

\* create_response: the select of the duplicate guard
CheckExisting(r) ==
  /\ req[r].pc = "check"
  /\ IF existing_response(tbl_responses, req[r].user_id, req[r].date) # {}
     THEN req' = Raised(r, 400, "Response for this date already submitted")
     ELSE req' = [req EXCEPT ![r].pc = "insert"]
  /\ UNCHANGED <<tbl_responses, tbl_answers>>
  /\ UNCHANGED scoreVars
  /\ UNCHANGED serviceVars

\* create_response: the insert into responses
InsertResponse(r) ==
  /\ req[r].pc = "insert"
  /\ tbl_responses' =
       Append(tbl_responses, [user_id |-> req[r].user_id, date |-> req[r].date])
  /\ req' = [req EXCEPT ![r].pc = "answers",
                        ![r].response_id = Len(tbl_responses) + 1]
  /\ UNCHANGED tbl_answers
  /\ UNCHANGED scoreVars
  /\ UNCHANGED serviceVars

\* create_response: the insert into response_answers, then the
\* invalidate_user_cache and the return of submit_response
InsertAnswers(r) ==
  /\ req[r].pc = "answers"
  /\ tbl_answers' =
       tbl_answers \o answer_records(req[r].response_id, req[r].answers)
  /\ cache' = invalidate_user_cache(cache, req[r].user_id)
  /\ req' = [req EXCEPT ![r].pc = "returned", ![r].answers = <<>>,
                        ![r].status_code = 200,
                        ![r].detail = "Response submitted successfully"]
  /\ UNCHANGED tbl_responses
  /\ UNCHANGED scoreVars
  /\ UNCHANGED <<clock, failed_login_attempts, sched>>

\* create_response: the insert into response_answers raises (the request to
\* the store fails); the handler of create_response turns it into a 500
InsertAnswersFails(r) ==
  /\ req[r].pc = "answers"
  /\ answer_records(req[r].response_id, req[r].answers) # <<>>
  /\ req' = Raised(r, 500, "Failed to create response")
  /\ UNCHANGED <<tbl_responses, tbl_answers>>
  /\ UNCHANGED scoreVars
  /\ UNCHANGED serviceVars

InitStore ==
  /\ today = ScoreToday
  /\ responses = <<>>
  /\ options_map = EmptyMap
  /\ result = NoResult
  /\ StoreIdle
  /\ ServicesIdle

NextStore ==
  \/ \E r \in Reqs, u \in Users, d \in SubmitDates, answers \in Payloads :
       Submit(r, u, d, answers)
  \/ \E r \in Reqs : Validate(r)
  \/ \E r \in Reqs : CheckExisting(r)
  \/ \E r \in Reqs : InsertResponse(r)
  \/ \E r \in Reqs : InsertAnswers(r)
  \/ \E r \in Reqs : InsertAnswersFails(r)

SpecStore == InitStore /\ [][NextStore]_vars

(***************************************************************************)
(* The streak specification: the collaborator hands over a growing         *)
(* collection of responses, and the dashboard computes the progress.       *)
(***************************************************************************)
Response(d, as) == [date |-> d, answers |-> as]

Init ==
  /\ today \in Todays
  /\ responses = <<>>
  /\ options_map = EmptyMap
  /\ result = NoResult
  /\ StoreIdle
  /\ ServicesIdle

AddResponse(d) ==
  /\ Len(responses) < MaxResponses
  /\ responses' = Append(responses, Response(d, <<>>))
  /\ result' = NoResult
  /\ UNCHANGED <<today, options_map, tbl_responses, tbl_answers, req>>
  /\ UNCHANGED serviceVars

DailyProgress ==
  /\ result = NoResult
  /\ result' = [fn |-> "calculate_daily_progress",
                out |-> calculate_daily_progress(responses, today)]
  /\ UNCHANGED <<today, responses, options_map>>
  /\ UNCHANGED storeVars
  /\ UNCHANGED serviceVars

Next ==
  \/ \E d \in DateStrings : AddResponse(d)
  \/ DailyProgress

Spec == Init /\ [][Next]_vars

(***************************************************************************)
(* The scoring specification: responses with answers are handed to the     *)
(* scorers the dashboard endpoints call.                                   *)
(***************************************************************************)
\* ids of the question catalog: mood (order 1), sleep quality (6),
\* bedtime (7), sleep duration (8)
Q1 == "q1"
Q6 == "q6"
Q7 == "q7"
Q8 == "q8"

Answer(q, sq, o) ==
  [question_id |-> q, sub_question_id |-> sq, selected_option_id |-> o]

\* the rows of response_answers the model draws from; o_gone is an option
\* that is no longer in the options tables
Answers ==
  { Answer(Q1, None, "o_contented"), Answer(Q1, None, "o_low"),
    Answer(Q1, None, "o_gone"), Answer(Q6, None, "o_good"),
    Answer(Q7, None, "o_10pm"), Answer(Q7, None, "o_late") }

\* build_options_map(): option id -> {option_text, option_value}
OptionsCatalog ==
  [ o \in {"o_happy", "o_contented", "o_low", "o_good", "o_poor", "o_7h",
            "o_9pm", "o_10pm", "o_late", "o_healthy", "o_easy", "o_breakfast",
            "o_adequate", "o_low_water"} |->
      CASE o = "o_happy" -> Option("Happy", "happy")
        [] o = "o_poor" -> Option("Poor", "poor")
        [] o = "o_7h" -> Option("7-8 hours", "7_8_hours")
        [] o = "o_9pm" -> Option("9pm", "9pm")
        [] o = "o_healthy" -> Option("Healthy (Fruit & Veg)", "healthy_breakfast")
        [] o = "o_easy" -> Option("Easy food/Snacks", "easy_breakfast")
        [] o = "o_breakfast" -> Option("Breakfast", "breakfast")
        [] o = "o_adequate" -> Option("Adequate (>1 litre)", "adequate")
        [] o = "o_low_water" -> Option("Low (<1 litre)", "low")
        [] o = "o_contented" -> Option("Contented", "contented")
        [] o = "o_low" -> Option("Low energy", "low_energy")
        [] o = "o_good" -> Option("Good", "good")
        [] o = "o_10pm" -> Option("10pm", "10pm")
        [] o = "o_late" -> Option("After Midnight", "after_midnight") ]

\* number of responses handed to the scorers
MaxScored == 2
\* number of answers in all the responses together
MaxAnswers == 2
\* days=7 of the daily mood chart
ChartDays == 7

InitScore ==
  /\ today = ScoreToday
  /\ responses = <<>>
  /\ options_map \in {OptionsCatalog, EmptyMap}
  /\ result = NoResult
  /\ StoreIdle
  /\ ServicesIdle

NewResponse(d) ==
  /\ Len(responses) < MaxScored
  /\ responses' = Append(responses, Response(d, <<>>))
  /\ result' = NoResult
  /\ UNCHANGED <<today, options_map, tbl_responses, tbl_answers, req>>
  /\ UNCHANGED serviceVars

AddAnswer(a) ==
  /\ responses # <<>>
  /\ Len(all_answers(responses)) < MaxAnswers
  /\ responses' =
       [responses EXCEPT ![Len(responses)].answers = Append(@, a)]
  /\ result' = NoResult
  /\ UNCHANGED <<today, options_map, tbl_responses, tbl_answers, req>>
  /\ UNCHANGED serviceVars

MoodScore ==
  /\ result = NoResult
  /\ result' = [fn |-> "calculate_mood_score",
                out |-> calculate_mood_score(responses, Q1, options_map)]
  /\ UNCHANGED <<today, responses, options_map>>
  /\ UNCHANGED storeVars
  /\ UNCHANGED serviceVars

OptionFrequency(q) ==
  /\ result = NoResult
  /\ result' = [fn |-> "calculate_option_frequency",
                question_id |-> q,
                out |-> calculate_option_frequency(responses, q, None,
                                                   options_map)]
  /\ UNCHANGED <<today, responses, options_map>>
  /\ UNCHANGED storeVars
  /\ UNCHANGED serviceVars

SleepScore ==
  /\ result = NoResult
  /\ result' = [fn |-> "calculate_sleep_score",
                out |-> calculate_sleep_score(responses, Q6, Q8, Q7,
                                              options_map)]
  /\ UNCHANGED <<today, responses, options_map>>
  /\ UNCHANGED storeVars
  /\ UNCHANGED serviceVars

DailyMoodChart ==
  /\ result = NoResult
  /\ result' = [fn |-> "calculate_daily_mood_chart",
                out |-> calculate_daily_mood_chart(responses, Q1, ChartDays,
                                                   options_map, today)]
  /\ UNCHANGED <<today, responses, options_map>>
  /\ UNCHANGED storeVars
  /\ UNCHANGED serviceVars

SleepQualityTrend ==
  /\ result = NoResult
  /\ result' = [fn |-> "calculate_sleep_quality_trend",
                out |-> calculate_sleep_quality_trend(responses, Q6, ChartDays,
                                                      options_map, today)]
  /\ UNCHANGED <<today, responses, options_map>>
  /\ UNCHANGED storeVars
  /\ UNCHANGED serviceVars

NextScore ==
  \/ \E d \in {strftime(today), strftime(today - 1)} : NewResponse(d)
  \/ \E a \in Answers : AddAnswer(a)
  \/ DailyProgress
  \/ MoodScore
  \/ \E q \in {None, Q1} : OptionFrequency(q)
  \/ SleepScore
  \/ DailyMoodChart
  \/ SleepQualityTrend

SpecScore == InitScore /\ [][NextScore]_vars

(***************************************************************************)
(* The mood specification: responses dated around the trailing week, with  *)
(* answers to the mood question, are handed to the mood scorers of the     *)
(* dashboard summary and to the option trend.                              *)
(***************************************************************************)
\* the dates of the responses: tomorrow, today, and the days 6, 7 and 8
\* before today
MoodDates ==
  { strftime(today + 1), strftime(today), strftime(today - 6),
    strftime(today - 7), strftime(today - 8) }

MoodAnswers ==
  { Answer(Q1, None, "o_happy"), Answer(Q1, None, "o_contented"),
    Answer(Q1, None, "o_low"), Answer(Q1, None, "o_gone"),
    Answer(Q6, None, "o_good") }

\* the time of day of datetime.now(), in seconds: midnight sharp, or noon
TimesOfDay == {0, 43200}

InitMood ==
  /\ today = ScoreToday
  /\ responses = <<>>
  /\ options_map = OptionsCatalog
  /\ result = NoResult
  /\ StoreIdle
  /\ ServicesIdle

WeeklySummary(time) ==
  /\ result = NoResult
  /\ result' = [fn |-> "calculate_weekly_summary",
                now |-> Now(today, time),
                out |-> calculate_weekly_summary(responses, Q1, options_map,
                                                 Now(today, time))]
  /\ UNCHANGED <<today, responses, options_map>>
  /\ UNCHANGED storeVars
  /\ UNCHANGED serviceVars

OptionTrends(option_text, question_id) ==
  /\ result = NoResult
  /\ result' = [fn |-> "calculate_option_trends",
                option_text |-> option_text,
                question_id |-> question_id,
                out |-> calculate_option_trends(responses, option_text,
                                                question_id, options_map)]
  /\ UNCHANGED <<today, responses, options_map>>
  /\ UNCHANGED storeVars
  /\ UNCHANGED serviceVars

NextMood ==
  \/ \E d \in MoodDates : NewResponse(d)
  \/ \E a \in MoodAnswers : AddAnswer(a)
  \/ MoodScore
  \/ \E time \in TimesOfDay : WeeklySummary(time)
  \/ DailyMoodChart

SpecMood == InitMood /\ [][NextMood]_vars

(***************************************************************************)
(* The frequency specification: one response whose answers select more    *)
(* options than the top list holds.  A selection either repeats the option *)
(* selected last or takes the next option of OptionIds not selected yet.   *)
(***************************************************************************)
\* number of selections of the response
MaxSelections == 12

OptionIds ==
  << "o01", "o02", "o03", "o04", "o05", "o06", "o07", "o08", "o09", "o10",
     "o11", "o12", "o13", "o14" >>

\* two options of different sub-questions carry the same text
FreqCatalog ==
  [ o \in {"o02", "o04"} |-> Option("Healthy (Fruit & Veg)", "healthy") ]

\* the options selected so far
Selected == { responses[1].answers[i].selected_option_id :
                i \in 1..Len(responses[1].answers) }

InitFreq ==
  /\ today = ScoreToday
  /\ responses = << Response(strftime(today), <<>>) >>
  /\ options_map = FreqCatalog
  /\ result = NoResult
  /\ StoreIdle
  /\ ServicesIdle

Select(o) ==
  /\ Len(responses[1].answers) < MaxSelections
  /\ IF o \in Selected
     THEN o = responses[1].answers[Len(responses[1].answers)].selected_option_id
     ELSE o = OptionIds[Cardinality(Selected) + 1]
  /\ responses' = [responses EXCEPT ![1].answers = Append(@, Answer(Q1, None, o))]
  /\ result' = NoResult
  /\ UNCHANGED <<today, options_map, tbl_responses, tbl_answers, req>>
  /\ UNCHANGED serviceVars

NextFreq ==
  \/ \E o \in Range(OptionIds) : Select(o)
  \/ OptionFrequency(None)

SpecFreq == InitFreq /\ [][NextFreq]_vars

(***************************************************************************)
(* The trend specification: responses of two days of one week and of the   *)
(* Monday of the next week, with enough selections of one option for its   *)
(* daily counts to differ.                                                 *)
(***************************************************************************)
\* number of answers in all the responses together
MaxTrendAnswers == 6

\* Monday 2023-12-25, Tuesday 2023-12-26 and Monday 2024-01-01
TrendDates == { <<2023, 12, 25>>, <<2023, 12, 26>>, <<2024, 1, 1>> }

TrendAnswers == { Answer(Q1, None, "o_contented"), Answer(Q1, None, "o_low") }

\* the store returns the responses ordered by date: .order("date", desc=False)
NextResponse(d) ==
  /\ Len(responses) < MaxScored
  /\ responses # <<>> => ~StrLess(d, responses[Len(responses)].date)
  /\ responses' = Append(responses, Response(d, <<>>))
  /\ result' = NoResult
  /\ UNCHANGED <<today, options_map, tbl_responses, tbl_answers, req>>
  /\ UNCHANGED serviceVars

AddTrendAnswer(a) ==
  /\ responses # <<>>
  /\ Len(all_answers(responses)) < MaxTrendAnswers
  /\ responses' =
       [responses EXCEPT ![Len(responses)].answers = Append(@, a)]
  /\ result' = NoResult
  /\ UNCHANGED <<today, options_map, tbl_responses, tbl_answers, req>>
  /\ UNCHANGED serviceVars

NextTrend ==
  \/ \E d \in TrendDates : NextResponse(d)
  \/ \E a \in TrendAnswers : AddTrendAnswer(a)
  \/ \E q \in {None, Q1} : OptionTrends("Contented", q)

SpecTrend == InitMood /\ [][NextTrend]_vars

(***************************************************************************)
(* The sleep specification: responses with answers to the three sleep      *)
(* questions are handed to calculate_sleep_score.                          *)
(***************************************************************************)
\* number of answers in all the responses together
MaxSleepAnswers == 4

SleepAnswers ==
  { Answer(Q6, None, "o_good"), Answer(Q6, None, "o_poor"),
    Answer(Q8, None, "o_7h"), Answer(Q7, None, "o_9pm"),
    Answer(Q7, None, "o_late"), Answer(Q7, None, "o_gone") }

AddSleepAnswer(a) ==
  /\ responses # <<>>
  /\ Len(all_answers(responses)) < MaxSleepAnswers
  /\ responses' =
       [responses EXCEPT ![Len(responses)].answers = Append(@, a)]
  /\ result' = NoResult
  /\ UNCHANGED <<today, options_map, tbl_responses, tbl_answers, req>>
  /\ UNCHANGED serviceVars

NextSleep ==
  \/ NextResponse(strftime(today))
  \/ \E a \in SleepAnswers : AddSleepAnswer(a)
  \/ SleepScore

SpecSleep == InitMood /\ [][NextSleep]_vars

(***************************************************************************)
(* The catalog specification: the endpoints look the question ids up in a  *)
(* catalog from which questions may be missing.                            *)
(***************************************************************************)
Q2 == "q2"
Q3 == "q3"

\* get_all_question_ids() when every question is in the table
FullCatalog ==
  [ order \in {1, 2, 3, 6, 7, 8} |->
      CASE order = 1 -> Q1 [] order = 2 -> Q2 [] order = 3 -> Q3
        [] order = 6 -> Q6 [] order = 7 -> Q7 [] order = 8 -> Q8 ]

\* the full catalog, the catalogs that miss one question, and the empty one
Catalogs ==
  { [ order \in S |-> FullCatalog[order] ] :
      S \in { DOMAIN FullCatalog, {} }
              \cup { DOMAIN FullCatalog \ {order} : order \in {2, 3, 6, 7, 8} } }

CatalogAnswers ==
  { Answer(Q6, None, "o_good"), Answer(Q7, None, "o_9pm"),
    Answer(Q2, "s_breakfast", "o_healthy"), Answer(Q3, None, "o_adequate") }

GetSleepScore(question_ids) ==
  /\ result = NoResult
  /\ result' = [fn |-> "get_sleep_score",
                question_ids |-> question_ids,
                out |-> get_sleep_score(responses, question_ids, options_map)]
  /\ UNCHANGED <<today, responses, options_map>>
  /\ UNCHANGED storeVars
  /\ UNCHANGED serviceVars

HealthWellness(question_ids) ==
  /\ result = NoResult
  /\ result' = [fn |-> "get_health_wellness_all",
                question_ids |-> question_ids,
                out |-> get_health_wellness_all(responses, question_ids,
                                                ChartDays, options_map, today)]
  /\ UNCHANGED <<today, responses, options_map>>
  /\ UNCHANGED storeVars
  /\ UNCHANGED serviceVars

NextCatalog ==
  \/ NextResponse(strftime(today))
  \/ \E a \in CatalogAnswers : AddAnswer(a)
  \/ \E question_ids \in Catalogs : GetSleepScore(question_ids)
  \/ \E question_ids \in Catalogs : HealthWellness(question_ids)

SpecCatalog == InitMood /\ [][NextCatalog]_vars

(***************************************************************************)
(* The nutrition and hydration specification.  The submission checks the   *)
(* number of the selected options and the sub-questions of a question, not *)
(* the question an option belongs to, so an answer may carry any option.   *)
(***************************************************************************)
\* number of answers in all the responses together
MaxWellAnswers == 3

Q5 == "q5"

WellAnswers ==
  { Answer(Q3, None, "o_adequate"), Answer(Q3, None, "o_low_water"),
    Answer(Q1, None, "o_low"),
    Answer(Q2, "s_breakfast", "o_healthy"), Answer(Q2, "s_breakfast", "o_easy"),
    Answer(Q2, None, "o_healthy"), Answer(Q5, "s_family", "o_easy") }

\* today, and the day before the oldest day of the window
WellDates == { strftime(today - ChartDays), strftime(today) }

AddWellAnswer(a) ==
  /\ responses # <<>>
  /\ Len(all_answers(responses)) < MaxWellAnswers
  /\ responses' =
       [responses EXCEPT ![Len(responses)].answers = Append(@, a)]
  /\ result' = NoResult
  /\ UNCHANGED <<today, options_map, tbl_responses, tbl_answers, req>>
  /\ UNCHANGED serviceVars

NutritionScore ==
  /\ result = NoResult
  /\ result' = [fn |-> "calculate_nutrition_score",
                out |-> calculate_nutrition_score(responses, Q2, options_map)]
  /\ UNCHANGED <<today, responses, options_map>>
  /\ UNCHANGED storeVars
  /\ UNCHANGED serviceVars

HydrationConsistency ==
  /\ result = NoResult
  /\ result' = [fn |-> "calculate_hydration_consistency",
                out |-> calculate_hydration_consistency(
                          responses, Q3, ChartDays, options_map, today)]
  /\ UNCHANGED <<today, responses, options_map>>
  /\ UNCHANGED storeVars
  /\ UNCHANGED serviceVars

NextWell ==
  \/ \E d \in WellDates : NextResponse(d)
  \/ \E a \in WellAnswers : AddWellAnswer(a)
  \/ NutritionScore
  \/ HydrationConsistency

SpecWell == InitMood /\ [][NextWell]_vars

(***************************************************************************)
(* The repeated-call specification: a scorer is called, and called again   *)
(* with the collection, the options map and the clock it was given the     *)
(* first time.  The responses are read with .get and never assigned to;    *)
(* the options map is the one object shared by all the calls, and a call   *)
(* leaves in it what its look-ups leave.                                   *)
(***************************************************************************)
\* the look-up that stores the id it did not find, as dict.setdefault would
dict_after_setdefault(om, option_id) ==
  IF option_id \in DOMAIN om THEN om
  ELSE [ o \in DOMAIN om \cup {option_id} |->
           IF o = option_id THEN Option(option_id, option_id) ELSE om[o] ]

\* the dict after options_map.get(option_id): get stores nothing
dict_after_get(om, option_id) == om

\* the shared map after the look-ups of the answers of l; an empty map is
\* replaced by a fresh dict of the call (options_map or {})
RECURSIVE options_after(_, _)
options_after(l, om) ==
  IF l = <<>> \/ om = EmptyMap THEN om
  ELSE options_after(Tail(l),
                     IF Truthy(Head(l).selected_option_id)
                     THEN dict_after_get(om, Head(l).selected_option_id)
                     ELSE om)

\* the scorers called twice
Scorers ==
  { "calculate_daily_progress", "calculate_mood_score",
    "calculate_option_frequency", "calculate_daily_mood_chart",
    "calculate_weekly_summary", "calculate_sleep_score",
    "calculate_nutrition_score", "calculate_hydration_consistency" }

\* the call of scorer fn as the dashboard makes it, at noon of the day
scorer_output(fn, rs, om, now) ==
  CASE fn = "calculate_daily_progress" -> calculate_daily_progress(rs, now)
    [] fn = "calculate_mood_score" -> calculate_mood_score(rs, Q1, om)
    [] fn = "calculate_option_frequency" ->
         calculate_option_frequency(rs, None, None, om)
    [] fn = "calculate_daily_mood_chart" ->
         calculate_daily_mood_chart(rs, Q1, ChartDays, om, now)
    [] fn = "calculate_weekly_summary" ->
         calculate_weekly_summary(rs, Q1, om, Now(now, 43200))
    [] fn = "calculate_sleep_score" -> calculate_sleep_score(rs, Q6, Q8, Q7, om)
    [] fn = "calculate_nutrition_score" -> calculate_nutrition_score(rs, Q2, om)
    [] fn = "calculate_hydration_consistency" ->
         calculate_hydration_consistency(rs, Q3, ChartDays, om, now)

TwiceAnswers ==
  { Answer(Q1, None, "o_contented"), Answer(Q1, None, "o_gone"),
    Answer(Q7, None, "o_late"), Answer(Q3, None, "o_adequate"),
    Answer(Q2, "s_breakfast", "o_healthy") }

FirstCall(fn) ==
  /\ result = NoResult
  /\ result' = [fn |-> fn, calls |-> 1,
                out |-> scorer_output(fn, responses, options_map, today)]
  /\ options_map' = options_after(all_answers(responses), options_map)
  /\ UNCHANGED <<today, responses>>
  /\ UNCHANGED storeVars
  /\ UNCHANGED serviceVars

SecondCall ==
  /\ result.fn \in Scorers
  /\ result.calls = 1
  /\ result' = [fn |-> result.fn, calls |-> 2, first |-> result.out,
                out |-> scorer_output(result.fn, responses, options_map,
                                      today)]
  /\ options_map' = options_after(all_answers(responses), options_map)
  /\ UNCHANGED <<today, responses>>
  /\ UNCHANGED storeVars
  /\ UNCHANGED serviceVars

NextTwice ==
  \/ \E d \in {strftime(today), strftime(today - 1)} : NewResponse(d)
  \/ \E a \in TwiceAnswers : AddAnswer(a)
  \/ \E fn \in Scorers : FirstCall(fn)
  \/ SecondCall

SpecTwice == InitScore /\ [][NextTwice]_vars

(***************************************************************************)
(* The cached endpoints of the dashboard next to the submissions: one      *)
(* event loop runs get_dashboard_summary and get_health_wellness_all, each *)
(* from its _make_key and get to its set or its return of the cached       *)
(* result, and time passes.                                                *)
(***************************************************************************)
\* the last second of the model
MaxClock == 600

\* the steps of the time
TickSeconds == {300}

\* the prefixes of the keys of the two cached endpoints
Prefixes == {"dashboard_summary", "health_wellness"}

\* the user of the dashboard and the date of the submissions
DashUser == "u1"

DashDate == <<2024, 1, 1>>

\* the body of the submissions next to the dashboard
DashPayload == << AnswerSelection("q1", <<"o_low">>, None) >>

\* get_all_responses_for_analytics(user_id): the rows of the user
user_history(tbl, user_id) ==
  { i \in 1..Len(tbl) : tbl[i].user_id = user_id }

\* an endpoint is between its get, which returned None, and its set
Pending == result.fn = "get"

InitDash ==
  /\ today = ScoreToday
  /\ responses = <<>>
  /\ options_map = EmptyMap
  /\ result = NoResult
  /\ StoreIdle
  /\ ServicesIdle

\* a cached endpoint up to the return of the cached result, or up to the
\* fetch of the history when get returned None
Lookup(prefix, user_id) ==
  /\ ~Pending
  /\ LET cache_key == key_hash(prefix, user_id)
         got == CacheService_get(make_key(cache, prefix, user_id),
                                 cache_key, clock)
     IN /\ cache' = got.cache
        /\ result' = [fn |-> IF got.hit THEN prefix ELSE "get",
                      prefix |-> prefix, user_id |-> user_id,
                      cache_key |-> cache_key, cached |-> got.hit,
                      out |-> got.out]
  /\ UNCHANGED <<today, responses, options_map>>
  /\ UNCHANGED storeVars
  /\ UNCHANGED <<clock, failed_login_attempts, sched>>

\* the rest of the endpoint: the result is computed from the history of the
\* user, stored for 300 seconds and returned
ComputeAndSet ==
  /\ Pending
  /\ LET value == [history |-> user_history(tbl_responses, result.user_id)]
     IN /\ cache' = CacheService_set(cache, result.cache_key, value, 300, clock)
        /\ result' = [result EXCEPT !.fn = result.prefix, !.out = value]
  /\ UNCHANGED <<today, responses, options_map>>
  /\ UNCHANGED storeVars
  /\ UNCHANGED <<clock, failed_login_attempts, sched>>

\* time passes, up to the last second of the specification
Tick(seconds, last) ==
  /\ clock + seconds <= last
  /\ clock' = clock + seconds
  /\ UNCHANGED scoreVars
  /\ UNCHANGED storeVars
  /\ UNCHANGED <<cache, failed_login_attempts, sched>>

NextDash ==
  \/ \E prefix \in Prefixes : Lookup(prefix, DashUser)
  \/ ComputeAndSet
  \/ \E seconds \in TickSeconds : Tick(seconds, MaxClock)
  \/ \E r \in Reqs : ~Pending /\ Submit(r, DashUser, DashDate, DashPayload)
  \/ \E r \in Reqs : ~Pending /\ Validate(r)
  \/ \E r \in Reqs : ~Pending /\ CheckExisting(r)
  \/ \E r \in Reqs : ~Pending /\ InsertResponse(r)
  \/ \E r \in Reqs : ~Pending /\ InsertAnswers(r)

SpecDash == InitDash /\ [][NextDash]_vars

(***************************************************************************)
(* The logins: attempts for a few addresses arrive as time passes.         *)
(***************************************************************************)
\* the last second of the logins
MaxLoginClock == 1800

\* the steps of the time between logins
LoginTickSeconds == {450}

InitLogin ==
  /\ today = ScoreToday
  /\ responses = <<>>
  /\ options_map = EmptyMap
  /\ result = NoResult
  /\ StoreIdle
  /\ ServicesIdle

\* POST /login with an address, and what the identity provider does when
\* it is called
Login(email, outcome) ==
  LET email_lower == lower(email)
      checked == after_lockout_check(failed_login_attempts, email_lower)
      after == IF outcome = "session"
               THEN record_success(checked, email_lower)
               ELSE record_failure(checked, email_lower, clock)
  IN /\ IF locked_out(failed_login_attempts, email_lower, clock)
        THEN /\ result' = [fn |-> "login", email |-> email_lower,
                           outcome |-> outcome, called |-> FALSE,
                           status_code |-> 429]
             /\ UNCHANGED failed_login_attempts
        ELSE /\ result' = [fn |-> "login", email |-> email_lower,
                           outcome |-> outcome, called |-> TRUE,
                           status_code |->
                             login_status(after, email_lower, outcome)]
             /\ failed_login_attempts' = after
     /\ UNCHANGED <<today, responses, options_map>>
     /\ UNCHANGED storeVars
     /\ UNCHANGED <<cache, clock, sched>>

NextLogin ==
  \/ \E email \in Emails, outcome \in Outcomes : Login(email, outcome)
  \/ \E seconds \in LoginTickSeconds : Tick(seconds, MaxLoginClock)

SpecLogin == InitLogin /\ [][NextLogin]_vars

(***************************************************************************)
(* The reminders next to the submissions: responses are stored and         *)
(* send_daily_reminders runs, with the look at today's submission failing  *)
(* for some users.                                                         *)
(***************************************************************************)
InitReminder ==
  /\ today = ScoreToday
  /\ responses = <<>>
  /\ options_map = EmptyMap
  /\ result = NoResult
  /\ StoreIdle
  /\ ServicesIdle

\* send_daily_reminders with the emails configured; failing holds the users
\* whose look at today's submission raises
SendDailyReminders(failing) ==
  /\ result' = [fn |-> "send_daily_reminders", failing |-> failing,
                out |-> send_daily_reminders(
                          user_profiles, tbl_responses,
                          strftime(datetime_now(today, clock).date), failing)]
  /\ UNCHANGED <<today, responses, options_map>>
  /\ UNCHANGED storeVars
  /\ UNCHANGED <<cache, clock, failed_login_attempts>>
  /\ sched' = IF sched.pc = "sending"
              THEN [sched EXCEPT !.pc = "scheduling"] ELSE sched

NextReminder ==
  \/ \E r \in Reqs, u \in Users, d \in SubmitDates :
       Submit(r, u, d, DashPayload)
  \/ \E r \in Reqs : Validate(r)
  \/ \E r \in Reqs : CheckExisting(r)
  \/ \E r \in Reqs : InsertResponse(r)
  \/ \E r \in Reqs : InsertAnswers(r)
  \/ \E failing \in SUBSET Users : SendDailyReminders(failing)

SpecReminder == InitReminder /\ [][NextReminder]_vars

(***************************************************************************)
(* The scheduler of the reminders: start_reminder_scheduler creates the    *)
(* task schedule_daily_reminders, which computes its target time, sleeps   *)
(* until it, sends the reminders and starts over, as time passes.          *)
(***************************************************************************)
\* the date the process is started on
SchedulerStart == strptime(<<2024, 1, 30>>)

\* the last second of the scheduler
MaxSchedulerClock == 259200

\* the steps of the time of the scheduler: four hours
SchedulerTickSeconds == {14400}

InitSchedule ==
  /\ today = SchedulerStart
  /\ responses = <<>>
  /\ options_map = EmptyMap
  /\ result = NoResult
  /\ StoreIdle
  /\ ServicesIdle

\* start_reminder_scheduler: asyncio.create_task(schedule_daily_reminders())
StartScheduler ==
  /\ sched.pc = "idle"
  /\ sched' = [sched EXCEPT !.pc = "scheduling"]
  /\ UNCHANGED scoreVars
  /\ UNCHANGED storeVars
  /\ UNCHANGED <<cache, clock, failed_login_attempts>>

\* schedule_daily_reminders from the top of the loop to the sleep; the
\* ValueError of replace ends the task
ScheduleNext ==
  /\ sched.pc = "scheduling"
  /\ LET now == datetime_now(today, clock)
         target == next_target_time(now)
     IN sched' = IF target.ok
                 THEN [pc |-> "sleeping",
                       target_time |-> clock + total_seconds(target.value, now)]
                 ELSE [pc |-> "crashed", target_time |-> sched.target_time]
  /\ UNCHANGED scoreVars
  /\ UNCHANGED storeVars
  /\ UNCHANGED <<cache, clock, failed_login_attempts>>

\* asyncio.sleep(wait_seconds) is over
Wake ==
  /\ sched.pc = "sleeping"
  /\ clock = sched.target_time
  /\ sched' = [sched EXCEPT !.pc = "sending"]
  /\ UNCHANGED scoreVars
  /\ UNCHANGED storeVars
  /\ UNCHANGED <<cache, clock, failed_login_attempts>>

NextSchedule ==
  \/ StartScheduler
  \/ ScheduleNext
  \/ Wake
  \/ sched.pc = "sending" /\ \E failing \in SUBSET Users :
                               SendDailyReminders(failing)
  \/ \E seconds \in SchedulerTickSeconds :
       /\ sched.pc \notin {"scheduling", "sending"}
       /\ sched.pc = "sleeping" => clock + seconds <= sched.target_time
       /\ Tick(seconds, MaxSchedulerClock)

SpecSchedule == InitSchedule /\ [][NextSchedule]_vars

(***************************************************************************)
(* Properties of calculate_daily_progress.                                 *)
(***************************************************************************)
IsProgress == result.fn = "calculate_daily_progress"

\* the set of calendar days that carry a response
DaySet == { strptime(responses[i].date) : i \in 1..Len(responses) }

\* length of the maximal run of consecutive days of S that ends at day d
RunEndingAt(S, d) ==
  IF d \notin S THEN 0
  ELSE Max({ n \in 1..Cardinality(S) : \A k \in 0..(n - 1) : (d - k) \in S })

\* length of the longest run of consecutive days anywhere in S
LongestRun(S) ==
  IF S = {} THEN 0 ELSE Max({ RunEndingAt(S, d) : d \in S })

MostRecent == Max(DaySet)

\* the collection with the responses at positions i and i+1 exchanged
Swap(rs, i) ==
  [ k \in 1..Len(rs) |->
      IF k = i THEN rs[i + 1] ELSE IF k = i + 1 THEN rs[i] ELSE rs[k] ]

\* C1: for every collection of responses and every today, the result of
\* calculate_daily_progress has current_streak <= longest_streak <= total_days.
C1_StreakOrder ==
  IsProgress =>
    /\ result.out.current_streak <= result.out.longest_streak
    /\ result.out.longest_streak <= result.out.total_days

C1_Witness ==
  /\ IsProgress
  /\ result.out.current_streak >= 1
  /\ result.out.longest_streak > result.out.current_streak
  /\ result.out.total_days > result.out.longest_streak

\* C2: when the most recent submission date is more than 1 day before today,
\* current_streak is 0, however many consecutive dates precede it.
C2_StaleStreakIsZero ==
  (IsProgress /\ responses # <<>> /\ today - MostRecent > 1) =>
    result.out.current_streak = 0

C2_Witness ==
  /\ IsProgress
  /\ responses # <<>>
  /\ today - MostRecent = 2
  /\ RunEndingAt(DaySet, MostRecent) >= 3
  /\ result.out.current_streak = 0
  /\ result.out.longest_streak >= 3

\* C3: when the most recent submission date is today or yesterday,
\* current_streak is the length of the maximal run of consecutive calendar
\* dates that ends at the most recent submission date.
C3_CurrentStreakIsRun ==
  (IsProgress /\ responses # <<>> /\ MostRecent \in {today, today - 1}) =>
    result.out.current_streak = RunEndingAt(DaySet, MostRecent)

C3_Witness ==
  /\ IsProgress
  /\ DaySet = {today, today - 2, today - 3}
  /\ result.out.current_streak = 1
  /\ result.out.longest_streak = 2

\* C4: longest_streak is the length of the longest run of consecutive calendar
\* dates in the set of unique submission dates, is 1 for a single date, and
\* does not change when the responses are supplied in another order.
C4_LongestStreakIsLongestRun ==
  IsProgress =>
    /\ result.out.longest_streak = LongestRun(DaySet)
    /\ Cardinality(DaySet) = 1 => result.out.longest_streak = 1
    /\ \A i \in 1..(Len(responses) - 1) :
         calculate_daily_progress(Swap(responses, i), today).longest_streak
           = result.out.longest_streak

C4_Witness ==
  /\ IsProgress
  /\ Len(responses) = 4
  /\ StrLess(responses[2].date, responses[1].date)
  /\ StrLess(responses[2].date, responses[3].date)
  /\ StrLess(responses[4].date, responses[2].date)
  /\ result.out.longest_streak = 2
  /\ result.out.total_days = 4

\* C5: several responses carrying the same date count as one day: total_days
\* is the number of distinct dates, and a further response on a date already
\* present changes none of the four fields.
C5_DuplicateDatesCollapse ==
  IsProgress =>
    /\ result.out.total_days = Cardinality(Range(date_list(responses)))
    /\ \A d \in Range(date_list(responses)) :
         calculate_daily_progress(Append(responses, Response(d, <<>>)), today)
           = result.out

C5_Witness ==
  /\ IsProgress
  /\ Len(responses) = 4
  /\ responses[1].date = responses[3].date
  /\ result.out.total_days = 3
  /\ result.out.current_streak = 2

(***************************************************************************)
(* Properties of the scorers.                                              *)
(***************************************************************************)
IsMood == result.fn = "calculate_mood_score"

IsFrequency == result.fn = "calculate_option_frequency"

\* the text an option id is displayed as: its option_text, or the id itself
DisplayText(o) ==
  IF o \in DOMAIN options_map THEN options_map[o].option_text ELSE o

\* positions, in the flattened answers, of the selections an aggregation
\* over question q counts (q = None: every question)
Selections(q) ==
  LET as == all_answers(responses)
  IN { i \in 1..Len(as) :
         /\ as[i].selected_option_id # None
         /\ q # None => (as[i].question_id = q /\ as[i].sub_question_id = None) }

SelectionsShown(q, text) ==
  LET as == all_answers(responses)
  IN { i \in Selections(q) : DisplayText(as[i].selected_option_id) = text }

\* C8: for an empty response collection every scorer returns its zero or
\* neutral default: the four progress fields 0, mood 50 / neutral with zero
\* counts, empty frequency tables with total_selections 0, the four sleep
\* scores 0, and an empty map from the daily chart functions.
C8_EmptyDefaults ==
  responses = <<>> =>
    /\ IsProgress =>
         result.out = [days_this_month |-> 0, current_streak |-> 0,
                       longest_streak |-> 0, total_days |-> 0]
    /\ IsMood =>
         /\ result.out.overall_score = 50
         /\ result.out.trend = "neutral"
         /\ result.out.positive_count = 0
         /\ result.out.negative_count = 0
         /\ result.out.distribution = <<>>
    /\ IsFrequency =>
         result.out = [absolute_counts |-> <<>>, percentages |-> <<>>,
                       top_options |-> <<>>, total_selections |-> 0]
    /\ result.fn = "calculate_sleep_score" =>
         result.out = [score |-> 0, quality_score |-> 0, duration_score |-> 0,
                       consistency_score |-> 0]
    /\ result.fn \in {"calculate_daily_mood_chart",
                      "calculate_sleep_quality_trend"} =>
         result.out = <<>>

C8_Witness ==
  /\ responses = <<>>
  /\ result.fn = "calculate_sleep_score"
  /\ result.out.score = 0

\* C9: an option id in the options map is shown as its option text and an id
\* absent from the map (or any id when the map is empty) as the id itself, so
\* every selection is counted, an unknown option under its own id, in the
\* frequency table and in the mood distribution.
C9_UnknownOptionCountedUnderId ==
  /\ IsFrequency =>
       /\ keys(result.out.absolute_counts)
            = { DisplayText(all_answers(responses)[i].selected_option_id) :
                  i \in Selections(result.question_id) }
       /\ \A t \in keys(result.out.absolute_counts) :
            dict_get(result.out.absolute_counts, t, 0)
              = Cardinality(SelectionsShown(result.question_id, t))
  /\ IsMood =>
       /\ keys(result.out.distribution)
            = { DisplayText(all_answers(responses)[i].selected_option_id) :
                  i \in Selections(Q1) }
       /\ \A t \in keys(result.out.distribution) :
            dict_get(result.out.distribution, t, 0)
              = Cardinality(SelectionsShown(Q1, t))

C9_Witness ==
  /\ IsFrequency
  /\ options_map = OptionsCatalog
  /\ dict_get(result.out.absolute_counts, "o_gone", 0) = 1
  /\ dict_get(result.out.absolute_counts, "Contented", 0) = 1

\* the score of a mood label in the lexicon, 50 for any other text
LexiconScore(t) ==
  CASE t = "Excited" -> 100
    [] t = "Happy" -> 90
    [] t = "Contented" -> 75
    [] t = "Normal" -> 50
    [] t = "Low energy" -> 30
    [] t = "Agitated/Stressed" -> 20
    [] t = "Depressed" -> 10
    [] OTHER -> 50

RECURSIVE LexiconTotal(_)
LexiconTotal(I) ==
  IF I = {} THEN 0
  ELSE LET i == CHOOSE k \in I : TRUE
       IN LexiconScore(
            DisplayText(all_answers(responses)[i].selected_option_id))
          + LexiconTotal(I \ {i})

\* C10 as stated: overall_score is round(100 * positive_count /
\* (positive_count + negative_count)) when a positive or negative selection
\* was found, and 50 when none was found.
C10_ScoreIsPositiveShare ==
  IsMood =>
    LET p == result.out.positive_count
        n == result.out.negative_count
    IN IF p + n > 0
       THEN result.out.overall_score = round_half_even(100 * p, p + n)
       ELSE result.out.overall_score = 50

\* C10 (amended): overall_score is the mean of the lexicon scores of the
\* options selected for the question, truncated to an integer, when at least
\* one selection was found, and 50 when none was found.
C10_ScoreIsTruncatedMean ==
  IsMood =>
    LET I == IF responses = <<>> THEN {} ELSE
               { i \in 1..Len(all_answers(responses)) :
                   /\ all_answers(responses)[i].question_id = Q1
                   /\ all_answers(responses)[i].selected_option_id # None }
        n == Cardinality(I)
        total == LexiconTotal(I)
    IN IF n = 0 THEN result.out.overall_score = 50
       ELSE /\ result.out.overall_score * n <= total
            /\ total < (result.out.overall_score + 1) * n

C10_Witness ==
  /\ IsMood
  /\ result.out.positive_count = 1
  /\ result.out.negative_count = 0
  /\ result.out.overall_score = 62

(***************************************************************************)
(* Properties of the submission path.                                      *)
(***************************************************************************)
\* the rows of the responses table of user u for date d
RowsOf(u, d) ==
  { i \in 1..Len(tbl_responses) :
      tbl_responses[i].user_id = u /\ tbl_responses[i].date = d }

DuplicateDetail == "Response for this date already submitted"

C7_DuplicateRejectedUnchanged ==
  [][ \A r \in Reqs :
        (/\ req[r].pc = "check"
         /\ req'[r].pc # "check"
         /\ RowsOf(req[r].user_id, req[r].date) # {})
        => /\ req'[r].pc = "raised"
           /\ req'[r].status_code = 400
           /\ req'[r].detail = DuplicateDetail
           /\ tbl_responses' = tbl_responses
           /\ tbl_answers' = tbl_answers ]_vars

C7_Witness ==
  \E r \in Reqs :
    /\ req[r].pc = "raised"
    /\ req[r].detail = DuplicateDetail
    /\ Cardinality(RowsOf(req[r].user_id, req[r].date)) = 1
    /\ Len(tbl_answers) = 2

(***************************************************************************)
(* Properties of the trend label, the daily mood chart, the option trend   *)
(* and the weekly summary.                                                 *)
(***************************************************************************)
IsWeekly == result.fn = "calculate_weekly_summary"

\* the label the thresholds 70, 55 and 45 give a score
TrendLabel(score) ==
  CASE score >= 70 -> "very_positive"
    [] score \in 55..69 -> "positive"
    [] score \in 45..54 -> "neutral"
    [] score < 45 -> "negative"

\* C11: the trend label is a function of the reported score alone: a score
\* of 70 or more is "very_positive", 55..69 is "positive", 45..54 is
\* "neutral" and a score below 45 is "negative", both for the trend of
\* calculate_mood_score and for the weekly_trend of calculate_weekly_summary.
C11_TrendFollowsScore ==
  /\ IsMood => result.out.trend = TrendLabel(result.out.overall_score)
  /\ IsWeekly => result.out.weekly_trend = TrendLabel(result.out.mood_score)

\* a weekly summary whose mood score sits on the threshold 70
C11_Witness ==
  /\ IsWeekly
  /\ result.out.days_completed > 0
  /\ result.out.mood_score = 70
  /\ result.out.weekly_trend = "very_positive"

IsMoodChart == result.fn = "calculate_daily_mood_chart"

\* positions <<response, answer>> of the selections made for question q in
\* the responses dated d
DaySelections(q, d) ==
  { p \in (1..Len(responses)) \X (1..Len(all_answers(responses))) :
      /\ responses[p[1]].date = d
      /\ p[2] <= Len(responses[p[1]].answers)
      /\ responses[p[1]].answers[p[2]].question_id = q
      /\ responses[p[1]].answers[p[2]].selected_option_id # None }

RECURSIVE DayLexiconTotal(_)
DayLexiconTotal(P) ==
  IF P = {} THEN 0
  ELSE LET p == CHOOSE x \in P : TRUE
       IN LexiconScore(DisplayText(
            responses[p[1]].answers[p[2]].selected_option_id))
          + DayLexiconTotal(P \ {p})

\* C12: every key of the daily mood chart is one of the dates today,
\* today-1, ..., today-(days-1) and is the date of at least one response (a
\* date without responses has no entry), and the entry of a date is the
\* truncated mean and the number of the selections made on that date only.
C12_ChartOnlyDaysWithResponses ==
  IsMoodChart =>
    \A k \in 1..Len(result.out) :
      LET d == result.out[k][1]
          v == result.out[k][2]
          P == DaySelections(Q1, d)
      IN /\ \E i \in 0..(ChartDays - 1) : d = strftime(today - i)
         /\ \E r \in 1..Len(responses) : responses[r].date = d
         /\ \A j \in 1..Len(result.out) : result.out[j][1] = d => j = k
         /\ v.count = Cardinality(P)
         /\ v.count > 0
         /\ v.score * v.count <= DayLexiconTotal(P)
         /\ DayLexiconTotal(P) < (v.score + 1) * v.count

\* the chart of a response of the oldest day of the window and a response
\* of the day before the window, both with a selection: one entry only
C12_Witness ==
  /\ IsMoodChart
  /\ Len(responses) = 2
  /\ DaySelections(Q1, strftime(today - (ChartDays - 1))) # {}
  /\ DaySelections(Q1, strftime(today - ChartDays)) # {}
  /\ Len(result.out) = 1
  /\ result.out[1][1] = strftime(today - (ChartDays - 1))

(***************************************************************************)
(* Properties of calculate_option_frequency.                               *)
(***************************************************************************)
\* position of the first counted selection displayed as text
FirstSeen(q, text) ==
  CHOOSE i \in SelectionsShown(q, text) :
    \A j \in SelectionsShown(q, text) : i <= j

\* item a of the counts ranks before item b: a larger count, or the same
\* count and an earlier first selection
RanksBefore(q, a, b) ==
  \/ a[2] > b[2]
  \/ a[2] = b[2] /\ FirstSeen(q, a[1]) < FirstSeen(q, b[1])

RECURSIVE SumOver(_, _)
SumOver(f, n) == IF n = 0 THEN 0 ELSE f[n] + SumOver(f, n - 1)

\* C13: every counted option has the percentage count / total_selections *
\* 100, the percentages sum to 100 when anything was counted, and
\* top_options holds the 10 highest-ranked options (all of them when there
\* are fewer), by count, largest first, options with the same count in the
\* order of their first selection.
C13_PercentagesAndTopTen ==
  IsFrequency =>
    LET q == result.question_id
        counts == result.out.absolute_counts
        pct == result.out.percentages
        top == result.out.top_options
        total == result.out.total_selections
        share == [ i \in 1..Len(pct) |-> (pct[i][2].num * total) \div pct[i][2].den ]
    IN /\ Len(pct) = Len(counts)
       /\ \A i \in 1..Len(counts) :
            /\ pct[i][1] = counts[i][1]
            /\ total > 0
            /\ pct[i][2].num * total = counts[i][2] * 100 * pct[i][2].den
       /\ counts # <<>> => SumOver(share, Len(share)) = 100 * total
       /\ Len(top) = (IF Len(counts) < 10 THEN Len(counts) ELSE 10)
       /\ \A i \in 1..Len(top) : top[i] \in Range(counts)
       /\ \A i \in 1..Len(top) : \A j \in 1..Len(top) :
            i < j => RanksBefore(q, top[i], top[j])
       /\ \A i \in 1..Len(top) : \A c \in Range(counts) :
            c \notin Range(top) => RanksBefore(q, top[i], c)

\* eleven distinct options counted and ten of them listed: the option
\* counted twice first although selected after another, and the option
\* selected last left out although its count equals a listed one
C13_Witness ==
  /\ IsFrequency
  /\ Len(result.out.absolute_counts) = 11
  /\ Len(result.out.top_options) = 10
  /\ result.out.top_options[1] # result.out.absolute_counts[1]
  /\ result.out.top_options[1][2] > result.out.top_options[2][2]
  /\ result.out.top_options[10][2] = result.out.absolute_counts[11][2]
  /\ result.out.absolute_counts[11] \notin Range(result.out.top_options)

(***************************************************************************)
(* Properties of calculate_option_trends.                                  *)
(***************************************************************************)
IsTrends == result.fn = "calculate_option_trends"

\* positions <<response, answer>> of the selections of the option displayed
\* as text, for question q (q = None: every question), in the responses
\* dated d
TrendSelections(q, text, d) ==
  { p \in (1..Len(responses)) \X (1..Len(all_answers(responses))) :
      /\ responses[p[1]].date = d
      /\ p[2] <= Len(responses[p[1]].answers)
      /\ q # None => responses[p[1]].answers[p[2]].question_id = q
      /\ responses[p[1]].answers[p[2]].selected_option_id # None
      /\ DisplayText(responses[p[1]].answers[p[2]].selected_option_id) = text }

\* the Monday on or before the date d: 2024-01-01 is a Monday, and so is
\* the day 53 weeks before it
MondayOf(d) ==
  LET monday == strptime(<<2024, 1, 1>>) - 53 * 7
  IN strftime(strptime(d) - ((strptime(d) - monday) % 7))

TrailingWeek ==
  LET InWeek(r) == /\ strptime(r.date) >= today - 7
                   /\ strptime(r.date) <= today
  IN SelectSeq(responses, InWeek)

\* C15 as stated: the weekly summary is the summary of the responses dated
\* no earlier than 7 days before today and no later than today; the other
\* responses change none of days_completed, top_selections, weekly_trend
\* and mood_score.
C15_SummaryOfTrailingWeek ==
  IsWeekly =>
    /\ result.out.days_completed = Len(TrailingWeek)
    /\ result.out =
         calculate_weekly_summary(TrailingWeek, Q1, options_map, result.now)

(***************************************************************************)
(* Properties of calculate_sleep_score.                                    *)
(***************************************************************************)
IsSleepScore == result.fn = "calculate_sleep_score"

QualityScore(t) ==
  CASE t = "Excellent" -> 100
    [] t = "Good" -> 80
    [] t = "Average" -> 60
    [] t = "Poor" -> 40
    [] t = "Very Poor" -> 20
    [] OTHER -> 60

DurationScore(t) ==
  CASE t = "Less than 3 hours" -> 20
    [] t = "3-4 hours" -> 40
    [] t = "5-6 hours" -> 60
    [] t = "7-8 hours" -> 90
    [] t = "8+ hours" -> 100
    [] OTHER -> 60

BedtimeHour(t) ==
  CASE t = "9pm" -> 21
    [] t = "10pm" -> 22
    [] t = "11pm" -> 23
    [] t = "Midnight" -> 24
    [] t = "After Midnight" -> 25
    [] OTHER -> 0

\* the text selected at position i of the flattened answers
TextAt(i) == DisplayText(all_answers(responses)[i].selected_option_id)

\* positions of the selections made for question q
SelectionsOf(q) ==
  { i \in 1..Len(all_answers(responses)) :
      /\ all_answers(responses)[i].question_id = q
      /\ all_answers(responses)[i].selected_option_id # None }

RECURSIVE TotalOver(_, _)
TotalOver(F(_), I) ==
  IF I = {} THEN 0
  ELSE LET i == CHOOSE k \in I : TRUE IN F(i) + TotalOver(F, I \ {i})

\* the mean of F over I as a fraction, or the default when I is empty
MeanOver(F(_), I, default) ==
  IF I = {} THEN Rat(default, 1) ELSE Rat(TotalOver(F, I), Cardinality(I))

\* the rounded value tenths is within half a tenth of the fraction x
RoundsToTenths(tenths, x) ==
  /\ 2 * (tenths * x.den - 10 * x.num) <= x.den
  /\ 2 * (10 * x.num - tenths * x.den) <= x.den

\* C16: for a non-empty collection the returned consistency_score is
\* max(0, 100 - 10 * variance of the numeric bedtimes) (50 when there is no
\* numeric bedtime), quality_score and duration_score are the means of the
\* scores of the selections (60 when there is none), score is 0.5 * quality
\* + 0.3 * duration + 0.2 * consistency of the unrounded values, each
\* rounded to one decimal; and the four returned scores lie in 0..100 for
\* every collection.
C16_CompositeSleepScore ==
  IsSleepScore =>
    LET out == result.out
        Quality(i) == QualityScore(TextAt(i))
        Duration(i) == DurationScore(TextAt(i))
        Hour(i) == BedtimeHour(TextAt(i))
        Square(i) == Hour(i) * Hour(i)
        B == { i \in SelectionsOf(Q7) : BedtimeHour(TextAt(i)) # 0 }
        n == Cardinality(B)
        quality == MeanOver(Quality, SelectionsOf(Q6), 60)
        duration == MeanOver(Duration, SelectionsOf(Q8), 60)
        \* variance = mean of the squares - square of the mean
        variance == Rat(n * TotalOver(Square, B)
                          - TotalOver(Hour, B) * TotalOver(Hour, B), n * n)
        raw == Rat(100 * variance.den - 10 * variance.num, variance.den)
        consistency == IF n = 0 THEN Rat(50, 1)
                       ELSE IF raw.num < 0 THEN Rat(0, 1) ELSE raw
        composite ==
          Rat(5 * quality.num * duration.den * consistency.den
              + 3 * duration.num * quality.den * consistency.den
              + 2 * consistency.num * quality.den * duration.den,
              10 * quality.den * duration.den * consistency.den)
    IN /\ \A f \in {"score", "quality_score", "duration_score",
                    "consistency_score"} : out[f] \in 0..1000
       /\ responses # <<>> =>
            /\ RoundsToTenths(out.quality_score, quality)
            /\ RoundsToTenths(out.duration_score, duration)
            /\ RoundsToTenths(out.consistency_score, consistency)
            /\ RoundsToTenths(out.score, composite)

\* Good sleep of 7-8 hours with bedtimes at 9pm and after midnight: the
\* variance 4 gives consistency 60, and the score is 40 + 27 + 12 = 79
C16_Witness ==
  /\ IsSleepScore
  /\ Cardinality(SelectionsOf(Q7)) = 2
  /\ result.out = [score |-> 790, quality_score |-> 800,
                   duration_score |-> 900, consistency_score |-> 600]

(***************************************************************************)
(* Properties of the endpoints when a question is missing from the         *)
(* catalog.                                                                *)
(***************************************************************************)
IsSleepEndpoint == result.fn = "get_sleep_score"

IsHealthWellness == result.fn = "get_health_wellness_all"

AllZero(r) == \A f \in DOMAIN r : r[f] = 0

\* C17: when a question a scorer needs is missing from the catalog the
\* endpoint answers with the zero or empty result of that metric: the four
\* sleep scores are 0 if any of the questions 6, 7, 8 is missing, whatever
\* the responses; the quality trend is empty without question 6, the
\* nutrition ratio and score are zeros without question 2 and the hydration
\* consistency is zeros without question 3.
C17_MissingQuestionGivesZeros ==
  /\ IsSleepEndpoint =>
       ({6, 7, 8} \ DOMAIN result.question_ids # {} =>
          /\ DOMAIN result.out
               = {"score", "quality_score", "duration_score",
                  "consistency_score"}
          /\ AllZero(result.out))
  /\ IsHealthWellness =>
       /\ {6, 7, 8} \ DOMAIN result.question_ids # {} =>
            AllZero(result.out.sleep_score)
       /\ 6 \notin DOMAIN result.question_ids =>
            result.out.sleep_quality_trend = <<>>
       /\ 2 \notin DOMAIN result.question_ids =>
            /\ AllZero(result.out.nutrition_ratio)
            /\ AllZero(result.out.nutrition_score)
       /\ 3 \notin DOMAIN result.question_ids =>
            AllZero(result.out.hydration_consistency)

\* the sleep score asked for with answers to the quality and the bedtime
\* question while only the bedtime question is missing from the catalog
C17_Witness ==
  /\ IsSleepEndpoint
  /\ DOMAIN result.question_ids = DOMAIN FullCatalog \ {7}
  /\ SelectionsOf(Q6) # {}
  /\ SelectionsOf(Q7) # {}
  /\ AllZero(result.out)

(***************************************************************************)
(* Properties of calculate_hydration_consistency and                       *)
(* calculate_nutrition_score.                                              *)
(***************************************************************************)
IsHydration == result.fn = "calculate_hydration_consistency"

IsNutritionScore == result.fn = "calculate_nutrition_score"

\* the dates of the trailing window that carry a response
WindowResponseDates ==
  { responses[r].date : r \in { x \in 1..Len(responses) :
      \E i \in 0..(ChartDays - 1) : responses[x].date = strftime(today - i) } }

\* C18 as stated: every date of the trailing window adds at most one to
\* adequate_days + low_days, so total_days is at most the number of distinct
\* response dates of the window even when two responses share a date;
\* total_days = adequate_days + low_days, and consistency_score is the
\* percentage of the classified days that are adequate.
C18_OneClassificationPerDay ==
  IsHydration =>
    /\ result.out.total_days <= Cardinality(WindowResponseDates)
    /\ result.out.total_days
         = result.out.adequate_days + result.out.low_days
    /\ IF result.out.total_days = 0 THEN result.out.consistency_score = 0
       ELSE RoundsToTenths(result.out.consistency_score,
                           Rat(100 * result.out.adequate_days,
                               result.out.total_days))

\* positions of the answers to sub-questions of the nutrition question whose
\* option is displayed as text
MealsShown(text) ==
  { i \in SelectionsOf(Q2) :
      /\ all_answers(responses)[i].sub_question_id # None
      /\ TextAt(i) = text }

HealthyMeals == MealsShown("Healthy (Fruit & Veg)")

EasyMeals == MealsShown("Easy food/Snacks")

\* C19 as stated: score is healthy_count / (healthy_count + easy_count) *
\* 100, and 0 when no meal was classified, the counts being taken over the
\* answers to sub-questions of the nutrition question only; total_meals is
\* healthy_count + easy_count.
C19_ScoreIsHealthyPercentage ==
  IsNutritionScore =>
    LET healthy == Cardinality(HealthyMeals)
        easy == Cardinality(EasyMeals)
    IN /\ result.out.total_meals = healthy + easy
       /\ IF healthy + easy = 0 THEN result.out.score = 0
          ELSE result.out.score * (healthy + easy) = 10 * (100 * healthy)

\* C19 (amended): score is healthy_count / (healthy_count + easy_count) *
\* 100 rounded to one decimal, and 0 when no meal was classified, the counts
\* being taken over the answers to sub-questions of the nutrition question
\* only; score equals the returned healthy_percentage and total_meals is
\* healthy_count + easy_count.
C19_ScoreIsRoundedHealthyPercentage ==
  IsNutritionScore =>
    LET healthy == Cardinality(HealthyMeals)
        easy == Cardinality(EasyMeals)
    IN /\ result.out.total_meals = healthy + easy
       /\ result.out.score = result.out.healthy_percentage
       /\ IF healthy + easy = 0 THEN result.out.score = 0
          ELSE RoundsToTenths(result.out.score,
                              Rat(100 * healthy, healthy + easy))

\* one healthy and two easy meals: the score is 33.3
C19_Witness ==
  /\ IsNutritionScore
  /\ Cardinality(HealthyMeals) = 1
  /\ Cardinality(EasyMeals) = 2
  /\ result.out.total_meals = 3
  /\ result.out.score = 333

MainOptionWithValue(answer, value) ==
  \E i \in 1..Len(answer.selected_option_ids) :
    \E opt \in question_options :
      /\ opt.question_id = answer.question_id
      /\ opt.id = answer.selected_option_ids[i]
      /\ opt.option_value = value

\* every answered sub-question with a triggering value has its main option
TriggersSelected(answer) ==
  answer.sub_question_answers # None =>
    \A k \in 1..Len(answer.sub_question_answers) :
      \A sq \in sub_questions :
        (/\ sq.id = answer.sub_question_answers[k][1]
         /\ sq.parent_question_id = answer.question_id
         /\ Len(answer.sub_question_answers[k][2]) > 0
         /\ sq.triggering_option_value # None)
        => MainOptionWithValue(answer, sq.triggering_option_value)

\* the number of selected main options fits the type of the question
CountFitsType(answer) ==
  /\ questions[answer.question_id] = "single_select"
       => Len(answer.selected_option_ids) = 1
  /\ questions[answer.question_id] = "multi_select"
       => Len(answer.selected_option_ids) >= 1

\* the stored records of one response and question that are main selections
\* with this option value
StoredMainWithValue(response_id, question_id, value) ==
  \E j \in 1..Len(tbl_answers) :
    /\ tbl_answers[j].response_id = response_id
    /\ tbl_answers[j].question_id = question_id
    /\ tbl_answers[j].sub_question_id = None
    /\ \E opt \in question_options :
         /\ opt.question_id = question_id
         /\ opt.id = tbl_answers[j].selected_option_id
         /\ opt.option_value = value

\* every stored sub-question answer whose sub-question has a triggering
\* value has the main option with that value stored in the same response
StoredTriggered ==
  \A j \in 1..Len(tbl_answers) :
    \A sq \in sub_questions :
      (/\ sq.id = tbl_answers[j].sub_question_id
       /\ sq.triggering_option_value # None)
      => StoredMainWithValue(tbl_answers[j].response_id,
                             tbl_answers[j].question_id,
                             sq.triggering_option_value)

\* C21: a submission passes validation only if every answer has the number
\* of main selections its question type asks for and every answered
\* sub-question with a triggering option value has a selected main option
\* with that value; otherwise submit_response raises 400 with both tables as
\* they were, and no stored sub-question answer lacks its triggering main
\* option in the same response.
C21_SubAnswersNeedTrigger ==
  [][ /\ \A r \in Reqs :
           (req[r].pc = "validate" /\ req'[r].pc # "validate")
           => IF \A k \in 1..Len(req[r].answers) :
                   /\ TriggersSelected(req[r].answers[k])
                   /\ CountFitsType(req[r].answers[k])
              THEN TRUE
              ELSE /\ req'[r].pc = "raised"
                   /\ req'[r].status_code = 400
                   /\ tbl_responses' = tbl_responses
                   /\ tbl_answers' = tbl_answers
      /\ StoredTriggered' ]_vars

\* a submission was rejected by the validation, and a sub-question answer
\* with its triggering main option is stored
C21_Witness ==
  /\ \E r \in Reqs : req[r].pc = "raised" /\ req[r].detail = "validation"
  /\ \E j \in 1..Len(tbl_answers) :
       /\ tbl_answers[j].sub_question_id = "s_breakfast"
       /\ StoredMainWithValue(tbl_answers[j].response_id, "q2", "breakfast")

(***************************************************************************)
(* Properties of the cache service and of the cached endpoints.            *)
(***************************************************************************)
\* get would return a value for this key now
Served(c, key, now) ==
  key \in DOMAIN c.memory_cache /\ c.cache_timestamps[key] > now

\* C22: after invalidate_user_cache(u) completed, get returns None for every
\* key _make_key produced for u, whatever calls and expiries came before.
C22_InvalidatedKeysMiss ==
  [][ \A r \in Reqs :
        (req[r].pc = "answers" /\ req'[r].pc = "returned")
        => \A prefix \in Prefixes :
             ~Served(cache', key_hash(prefix, req[r].user_id), clock') ]_vars

\* the step is the first part of a cached endpoint: _make_key and get
IsLookup == ~Pending /\ result' # result

\* C23: get returns the value of the latest set of the key exactly while the
\* time is strictly before the time of that set plus its ttl; at or after
\* that time get returns None and removes the entry.
C23_GetWithinTtl ==
  [][ /\ IsLookup =>
           LET key == result'.cache_key
               stored == key \in DOMAIN cache.memory_cache
           IN /\ result'.cached
                   <=> (stored /\ clock < cache.cache_timestamps[key])
              /\ result'.cached => result'.out = cache.memory_cache[key]
              /\ ~result'.cached
                   => /\ result'.out = None
                      /\ stored => key \notin DOMAIN cache'.memory_cache
      /\ (Pending /\ ~Pending') =>
           /\ cache'.memory_cache[result.cache_key] = result'.out
           /\ cache'.cache_timestamps[result.cache_key] = clock + 300 ]_vars

\* get found the entry of its key expired at the very second of its expiry
\* and removed it together with the tracking of the key
C23_Witness ==
  /\ Pending
  /\ clock = 300
  /\ result.cache_key \notin DOMAIN cache.memory_cache
  /\ result.cache_key \notin DOMAIN cache.key_to_user
  /\ \E r \in Reqs : req[r].pc = "returned"

\* C24: once submit_response returned successfully, every later summary of
\* the user comes from a history that includes the new response.
C24_SummaryIncludesSubmitted ==
  [][ (result' # result /\ result'.fn \in Prefixes)
      => \A r \in Reqs :
           (req[r].pc = "returned" /\ req[r].user_id = result'.user_id)
           => req[r].response_id \in result'.out.history ]_vars

(***************************************************************************)
(* Property of create_response when the store fails.                       *)
(***************************************************************************)
\* C27: once create_response returned or raised, a response row exists only
\* together with its answer records, so a failed insert of the answers
\* leaves no row for the duplicate guard to find.
C27_ResponseStoredWithAnswers ==
  \A i \in 1..Len(tbl_responses) :
    \/ \E r \in Reqs : req[r].pc = "answers" /\ req[r].response_id = i
    \/ \E j \in 1..Len(tbl_answers) : tbl_answers[j].response_id = i

(***************************************************************************)
(* Properties of the account lockout of login.                             *)
(***************************************************************************)
\* the step is a login attempt
IsLogin ==
  /\ result'.fn = "login"
  /\ result' # result \/ failed_login_attempts' # failed_login_attempts

\* the failures counted for an address
CountOf(attempts, e) == IF e \in DOMAIN attempts THEN attempts[e].count ELSE 0

\* the address has a lockout, running or over
HasLock(attempts, e) ==
  e \in DOMAIN attempts /\ attempts[e].locked_until # NotLocked

\* C25: the fifth failure in a row for an address is answered 429 and locks
\* it for 15 minutes; every attempt before the 15 minutes are over is
\* answered 429 without a call of the identity provider, whatever the
\* password; the first attempt at or after the end of the lockout is handed
\* to the identity provider with the counter back at 0; a successful login
\* resets the counter to 0.
C25_LockoutAfterFiveFailures ==
  [][ \A e \in {lower(x) : x \in Emails} :
        (IsLogin /\ result'.email = e)
        => LET before == failed_login_attempts
               after == failed_login_attempts'
               failed == result'.called /\ result'.outcome # "session"
           IN /\ (CountOf(before, e) = 4 /\ failed)
                   => /\ result'.status_code = 429
                      /\ after[e].locked_until = clock + 900
              /\ (HasLock(before, e) /\ clock < before[e].locked_until)
                   => /\ result'.status_code = 429
                      /\ ~result'.called
                      /\ after = before
              /\ (HasLock(before, e) /\ clock >= before[e].locked_until)
                   => /\ result'.called
                      /\ CountOf(after, e) = IF failed THEN 1 ELSE 0
              /\ (result'.called /\ result'.outcome = "session")
                   => /\ result'.status_code = 200
                      /\ CountOf(after, e) = 0 ]_vars

\* a correct password was answered 429 without a call of the identity
\* provider one tick before the end of a lockout that started at second 450
C25_Witness ==
  /\ result.fn = "login"
  /\ result.outcome = "session"
  /\ ~result.called
  /\ result.status_code = 429
  /\ clock = 900
  /\ failed_login_attempts[result.email].locked_until = 1350

\* C26: the counter of every address stays in 0..MAX_LOGIN_ATTEMPTS, every
\* failed attempt that reaches the identity provider raises it by exactly 1
\* (from 0 when the attempt found an expired lockout), on the path without
\* session and on the path of the exception, and locked_until is set
\* exactly when the counter equals MAX_LOGIN_ATTEMPTS.
C26_CounterBoundedAndLocked ==
  [][ /\ \A e \in DOMAIN failed_login_attempts' :
           /\ failed_login_attempts'[e].count \in 0..MAX_LOGIN_ATTEMPTS
           /\ failed_login_attempts'[e].locked_until # NotLocked
                <=> failed_login_attempts'[e].count = MAX_LOGIN_ATTEMPTS
      /\ (IsLogin /\ result'.called /\ result'.outcome # "session")
         => CountOf(failed_login_attempts', result'.email)
              = 1 + (IF HasLock(failed_login_attempts, result'.email)
                     THEN 0
                     ELSE CountOf(failed_login_attempts, result'.email)) ]_vars

\* the fifth failure came on the path of the exception and locked the
\* address for 900 seconds
C26_Witness ==
  /\ result.fn = "login"
  /\ result.outcome = "error"
  /\ result.status_code = 429
  /\ clock = 1350
  /\ failed_login_attempts[result.email].count = 5
  /\ failed_login_attempts[result.email].locked_until = 2250

(***************************************************************************)
(* Properties of the reminders.                                            *)
(***************************************************************************)
\* C28: schedule_daily_reminders never stops: at every iteration, on every
\* calendar date, it computes a target time strictly in the future and at
\* most 24 hours away and goes to sleep until it.
C28_NextTargetWithinADay ==
  [][ (sched.pc = "scheduling" /\ sched'.pc # "scheduling")
      => /\ sched'.pc = "sleeping"
         /\ sched'.target_time - clock \in 1..SecondsPerDay ]_vars

\* the reminder-enabled users with an email address and no response dated
\* today
DueUsers ==
  { user_profiles[i].user_id : i \in
      { k \in 1..Len(user_profiles) :
          /\ user_profiles[k].pref_reminder
          /\ user_profiles[k].email # None
          /\ ~\E j \in 1..Len(tbl_responses) :
                /\ tbl_responses[j].user_id = user_profiles[k].user_id
                /\ tbl_responses[j].date
                     = strftime(today + (clock \div SecondsPerDay)) } }

\* C29: send_daily_reminders emails exactly the reminder-enabled users with
\* an email address and no response dated today, also when the look at
\* today's submission fails.
C29_RemindersOnlyToDueUsers ==
  [][ (result'.fn = "send_daily_reminders" /\ result' # result)
      => { result'.out.results[i].user_id :
             i \in 1..Len(result'.out.results) } = DueUsers ]_vars

(***************************************************************************)
(* Property of days_completed of calculate_weekly_summary.                 *)
(***************************************************************************)
\* the dates of the responses calculate_weekly_summary takes as its week
WeekDates ==
  LET weekly == weekly_responses(responses, result.now)
  IN { weekly[i].date : i \in 1..Len(weekly) }

\* C30: days_completed is the number of distinct dates of the week that
\* have a response: it never exceeds 7 and two responses of one date count
\* as one.
C30_DaysCompletedCountsDates ==
  IsWeekly =>
    /\ result.out.days_completed = Cardinality(WeekDates)
    /\ result.out.days_completed <= 7
====
